---- MODULE Spec2Model ----
(***************************************************************************)
(* Verification model of rewordapp: the network-address regeneration of    *)
(* netparser.py, the address rewriters of rewrite/rewritten.py, the        *)
(* datetime regeneration of parser/datetime.py and the line/document       *)
(* builder of line.py and core.py.                                         *)
(***************************************************************************)
EXTENDS Integers, Sequences, FiniteSets, TLC

VARIABLES
    parsers,    \* netparser.py: the IPv4 parsers regenerated so far, in order
    withSources,\* whether the caller passes the earlier parsers as source_parsers
    Mapping,    \* mapping.py: the tables of class Mapping, once its body has run
    rw,         \* the last call of a rewriter of rewrite/rewritten.py
    builder,    \* core.py: the RewordBuilder, its lines, its rules, its last read
    dt          \* parser/datetime.py: the datetime parser and its rewritten text

vars == <<parsers, withSources, Mapping, rw, builder, dt>>

(***************************************************************************)
(* Bounds of the model.                                                    *)
(***************************************************************************)
MaxParsers == 2      \* parsers regenerated in one run
NumDraws == 2        \* outcomes kept of each random.choice over a band
MaxShift == 1        \* shuffles kept of each charset: its rotations by 0..MaxShift
MaxLines == 2        \* lines of a document

(***************************************************************************)
(* Generic helpers.                                                        *)
(***************************************************************************)
Pow2(n) == 2 ^ n

Range(f) == {f[i] : i \in DOMAIN f}

SetMin(S) == CHOOSE x \in S : \A y \in S : x <= y

(***************************************************************************)
(* netparser.py: octets.                                                   *)
(***************************************************************************)
\* the decimal digits, as characters
Digits == <<"0", "1", "2", "3", "4", "5", "6", "7", "8", "9">>

\* int(c) of one decimal digit
DigitVal(c) == (CHOOSE i \in 1..10 : Digits[i] = c) - 1

\* str(value) of a natural number
RECURSIVE DecStr(_)
DecStr(v) ==
    IF v < 10 THEN <<Digits[v + 1]>>
    ELSE DecStr(v \div 10) \o <<Digits[(v % 10) + 1]>>

\* int(data, base=10)
RECURSIVE DecVal(_)
DecVal(ds) ==
    IF ds = <<>> THEN 0
    ELSE DecVal(SubSeq(ds, 1, Len(ds) - 1)) * 10 + DigitVal(ds[Len(ds)])

\* the band [start, stop) of pick_new_octet_value that holds an IPv4 octet
\* value, from boundaries (10, 100, 256)
BandStart(v) == IF v < 10 THEN 0 ELSE IF v < 100 THEN 10 ELSE 100
BandStop(v) == IF v < 10 THEN 10 ELSE IF v < 100 THEN 100 ELSE 256

\* random.choice(candidates): the model keeps the NumDraws smallest values of
\* list(range(start, stop)) without value
Draws(start, stop, value) ==
    { c \in start..(IF stop - 1 < start + NumDraws THEN stop - 1
                    ELSE start + NumDraws) :
        /\ c # value
        /\ (c - start) - (IF value < c THEN 1 ELSE 0) < NumDraws }

\* pick_new_octet_value for net_type ipv4: zero stays zero, any other value
\* is replaced by a random other value of its band
pick_new_octet_value(v) ==
    IF v = 0 THEN {0}
    ELSE Draws(BandStart(v), BandStop(v), v)

\* Octets.total_nonzero_octet
total_nonzero_octet(octs) == Cardinality({i \in 1..4 : octs[i] > 0})

\* one octet of Octets.generate_new: a clone before the pivot, a new Octet built
\* from the text of pick_new_octet_value after it
NewOctet(octs, i, pivot) ==
    IF i <= pivot THEN {octs[i]}
    ELSE {DecVal(DecStr(c)) : c \in pick_new_octet_value(octs[i])}

\* Octets.generate_new for net_type ipv4: the set of possible new octet lists
\* the regeneration with no pivot: every octet is drawn anew
OctetsGenerateNew_no_pivot(octs) ==
    { <<a, b, c, d>> : a \in NewOctet(octs, 1, 0), b \in NewOctet(octs, 2, 0),
                       c \in NewOctet(octs, 3, 0), d \in NewOctet(octs, 4, 0) }

OctetsGenerateNew(octs) ==
    LET pivot == IF total_nonzero_octet(octs) <= 1 THEN 0 ELSE 1
    IN  { <<a, b, c, d>> :
            a \in NewOctet(octs, 1, pivot), b \in NewOctet(octs, 2, pivot),
            c \in NewOctet(octs, 3, pivot), d \in NewOctet(octs, 4, pivot) }

\* NetworkParser.value: int(ipaddress.ip_address(address)), a 32-bit number
\* kept as its high and low 16-bit halves
Value(octs) ==
    <<octs[1] * Pow2(8) + octs[2], octs[3] * Pow2(8) + octs[4]>>

\* 2 ** 32 - value == 2 ** bit, on the two halves of the value
ComplementIsPow2(v, bit) ==
    IF bit < 16
    THEN v[1] = Pow2(16) - 1 /\ Pow2(16) - v[2] = Pow2(bit)
    ELSE v[2] = 0 /\ Pow2(16) - v[1] = Pow2(bit - 16)

\* IPv4Parser.is_valid_netmask
\* the netmask test with the loop stopped one bit early: range(31)
is_valid_netmask_short(octs) ==
    \E bit \in 0..30 : ComplementIsPow2(Value(octs), bit)

is_valid_netmask(octs) ==
    \E bit \in 0..31 : ComplementIsPow2(Value(octs), bit)

\* NetworkParser.sync_octets: every octet that differs is replaced by a clone
\* of the other parser's octet; address and value are left as they are
sync_octets(mine, other) ==
    [i \in 1..4 |-> IF mine[i] # other[i] THEN other[i] ELSE mine[i]]

\* index of the first source parser whose original address has this value
FirstIdentical(srcs, v) ==
    SetMin({i \in 1..Len(srcs) : Value(srcs[i].octs) = v})

\* index of the first source whose original octet at position p equals o
\* (Octets.contains_octet), or 0
\* the source lookup comparing the octet at the first position instead of p
FirstMatching_wrong_position(srcs, p, o) ==
    LET M == {i \in 1..Len(srcs) : srcs[i].octs[1] = o}
    IN  IF M = {} THEN 0 ELSE SetMin(M)

FirstMatching(srcs, p, o) ==
    LET M == {i \in 1..Len(srcs) : srcs[i].octs[p] = o}
    IN  IF M = {} THEN 0 ELSE SetMin(M)

\* IPv4Parser.generate_new: the possible new parsers of an address given the
\* earlier parsers; new_address is the address text the new parser was built
\* from (it fixes address and value), new_octets its octet list after syncing
IPv4GenerateNew(octs, srcs) ==
    IF is_valid_netmask(octs)
    THEN { [new_address |-> octs, new_octets |-> octs] }
    ELSE
      { [new_address |-> base,
         new_octets |->
            IF srcs = <<>> THEN base
            ELSE IF \E i \in 1..Len(srcs) : Value(srcs[i].octs) = Value(octs)
            THEN sync_octets(base,
                     srcs[FirstIdentical(srcs, Value(octs))].new_octets)
            ELSE [p \in 1..4 |->
                    IF p >= 2 /\ FirstMatching(srcs, p, octs[p]) # 0
                    THEN srcs[FirstMatching(srcs, p, octs[p])].new_octets[p]
                    ELSE base[p]]]
        : base \in OctetsGenerateNew(octs) }

(***************************************************************************)
(* mapping.py: charsets, shuffles and tables.  Text is a sequence of       *)
(* one-character strings.                                                  *)
(***************************************************************************)
Zero == <<"0">>
NonZeroDigits == <<"1", "2", "3", "4", "5", "6", "7", "8", "9">>
LowerHex == <<"a", "b", "c", "d", "e", "f">>
UpperHex == <<"A", "B", "C", "D", "E", "F">>
OctalDigits == <<"1", "2", "3", "4", "5", "6", "7">>     \* digits[1:-2]

LowerLetters ==
    <<"a", "b", "c", "d", "e", "f", "g", "h", "i", "j", "k", "l", "m",
      "n", "o", "p", "q", "r", "s", "t", "u", "v", "w", "x", "y", "z">>
UpperLetters ==
    <<"A", "B", "C", "D", "E", "F", "G", "H", "I", "J", "K", "L", "M",
      "N", "O", "P", "Q", "R", "S", "T", "U", "V", "W", "X", "Y", "Z">>

letters_set ==
    << <<"a", "e">>, <<"b", "c", "d", "f">>, <<"i", "o", "u">>, <<"y">>,
       <<"g", "h", "j", "k", "l", "m", "n", "p", "q", "r", "s", "t", "v",
         "w", "x", "z">>,
       <<"A", "E">>, <<"B", "C", "D", "F">>, <<"I", "O", "U">>, <<"Y">>,
       <<"G", "H", "J", "K", "L", "M", "N", "P", "Q", "R", "S", "T", "V",
         "W", "X", "Z">> >>
digits_set == <<Zero, NonZeroDigits>>
hex_set == <<LowerHex, UpperHex, Zero, NonZeroDigits>>
alphanumeric_set == letters_set \o digits_set

\* a shuffle of a list: the model keeps the rotations of the list
Rotate(origin, k) ==
    [i \in 1..Len(origin) |-> origin[((i - 1 + k) % Len(origin)) + 1]]

\* shuffle_until_unique under the random state k: a derangement when one of
\* the attempts finds it, any shuffle (the identity included) otherwise
shuffle_until_unique(origin, k) == Rotate(origin, k)

IndexOf(seq, x) == CHOOSE i \in 1..Len(seq) : seq[i] = x

\* zip(chars, shuffled) as a dict
ZipMap(chars, shuffled) ==
    [c \in Range(chars) |-> shuffled[IndexOf(chars, c)]]

\* dict.update
Update(m, n) ==
    [c \in (DOMAIN m) \cup (DOMAIN n) |-> IF c \in DOMAIN n THEN n[c] ELSE m[c]]

\* build_char_map with every character of a charset sent to the first
\* character of its shuffle
RECURSIVE build_char_map_first(_, _)
build_char_map_first(charsets, k) ==
    IF charsets = <<>> THEN <<>>
    ELSE LET n == Len(charsets)
         IN  Update(build_char_map_first(SubSeq(charsets, 1, n - 1), k),
                    [c \in Range(charsets[n]) |->
                       shuffle_until_unique(charsets[n], k)[1]])

\* build_char_map under the random state k: each charset is shuffled in turn
RECURSIVE build_char_map(_, _)
build_char_map(charsets, k) ==
    IF charsets = <<>> THEN <<>>
    ELSE LET n == Len(charsets)
         IN  Update(build_char_map(SubSeq(charsets, 1, n - 1), k),
                    ZipMap(charsets[n], shuffle_until_unique(charsets[n], k)))

\* the list [str(n) for n in range(start, stop)], as numbers
NumRange(start, stop) == [i \in 1..(stop - start) |-> start + i - 1]

\* build_ipv4_octet_map under the random state k: zero fixed, one shuffle per
\* band
build_ipv4_octet_map(k) ==
    Update(Update(Update(Update([z \in {0} |-> 0],
        ZipMap(NumRange(1, 10), shuffle_until_unique(NumRange(1, 10), k))),
        ZipMap(NumRange(10, 100), shuffle_until_unique(NumRange(10, 100), k))),
        ZipMap(NumRange(100, 200), shuffle_until_unique(NumRange(100, 200), k))),
        ZipMap(NumRange(200, 256), shuffle_until_unique(NumRange(200, 256), k)))

\* the body of class Mapping, and of Mapping.refresh, under the random state k
\* with first_digit the choice fd: the tables the rewriters of the model read
MappingTables(k, fd) ==
    [loaded |-> TRUE,
     first_digit |-> fd,
     letters |-> build_char_map(letters_set, k),
     base_number |-> build_char_map(digits_set, k),
     fraction_number |-> build_char_map(digits_set, k),
     alphanumeric |-> build_char_map(alphanumeric_set, k),
     octal |-> build_char_map(<<Zero, OctalDigits>>, k),
     file_permission |-> build_char_map(<<Zero \o OctalDigits>>, k),
     win_file_mode |-> build_char_map(<< <<"-">>, <<"d">>, <<"D">>,
                          <<"a", "h", "i", "l", "r", "s">>,
                          <<"A", "H", "I", "L", "R", "S">> >>, k),
     url |-> [user |-> build_char_map(alphanumeric_set, k),
              host |-> build_char_map(alphanumeric_set, k),
              path |-> build_char_map(alphanumeric_set, k),
              query |-> build_char_map(alphanumeric_set, k),
              fragment |-> build_char_map(alphanumeric_set, k)],
     mac_octet |-> build_char_map(hex_set, k),
     ipv4_octet |-> build_ipv4_octet_map(k),
     ipv6_octet |-> build_char_map(hex_set, k)]

\* the outcomes of the random draws of one run of the class body: the shuffles
\* 0..MaxShift and the NumDraws smallest values of random.choice("123456789")
Tables ==
    { MappingTables(k, NonZeroDigits[fd]) :
        k \in 0..MaxShift,
        fd \in 1..(IF NumDraws < 9 THEN NumDraws ELSE 9) }

\* mapping.get(ch, ch)
Get(m, ch) == IF ch \in DOMAIN m THEN m[ch] ELSE ch

MapChars(t, m) == [i \in 1..Len(t) |-> Get(m, t[i])]

\* generate_random_binary: any bit string of the width of the source
generate_random_binary(source) == [1..Len(source) -> {"0", "1"}]

HexChars == Range(LowerHex) \cup Range(UpperHex) \cup Range(Zero)
            \cup Range(NonZeroDigits)
OctChars == Range(Zero) \cup Range(OctalDigits)

DropFirst(t, n) == SubSeq(t, n + 1, Len(t))     \* text[n:]
TakeFirst(t, n) == SubSeq(t, 1, n)              \* text[:n]
AllIn(t, S) == \A i \in 1..Len(t) : t[i] \in S

\* re.fullmatch(r"(?i)0x[a-f0-9]+", text)
IsHexLiteral(t) ==
    Len(t) >= 3 /\ t[1] = "0" /\ t[2] \in {"x", "X"} /\ AllIn(DropFirst(t, 2), HexChars)

\* re.fullmatch(r"(?i)0b[01]+", text)
IsBinLiteral(t) ==
    Len(t) >= 3 /\ t[1] = "0" /\ t[2] \in {"b", "B"} /\ AllIn(DropFirst(t, 2), {"0", "1"})

\* re.fullmatch(r"(?i)0o?[0-7]+", text)
IsOctLiteral(t) ==
    \/ Len(t) >= 2 /\ t[1] = "0" /\ AllIn(DropFirst(t, 1), OctChars)
    \/ Len(t) >= 3 /\ t[1] = "0" /\ t[2] \in {"o", "O"} /\ AllIn(DropFirst(t, 2), OctChars)

\* The rewriters read the attributes of class Mapping when they are called:
\* their first parameter M is the record of those attributes at that time.
\* apply_mapping: the possible rewritings of a text under a table
apply_mapping(M, t, m) ==
    IF IsHexLiteral(t) THEN {TakeFirst(t, 2) \o MapChars(DropFirst(t, 2), m)}
    ELSE IF IsBinLiteral(t)
    THEN {TakeFirst(t, 2) \o b : b \in generate_random_binary(DropFirst(t, 2))}
    ELSE IF IsOctLiteral(t)
    THEN LET prefix_len == IF \E i \in 1..Len(t) : t[i] \in {"o", "O"}
                           THEN 2 ELSE 1
         IN  {TakeFirst(t, prefix_len) \o MapChars(DropFirst(t, prefix_len), M.octal)}
    ELSE {MapChars(t, m)}

(***************************************************************************)
(* rewrite/rewritten.py: new_ipv4_address.                                 *)
(***************************************************************************)
\* Mapping.ipv4_octet.get(octet, octet): the keys are str(n) for n in 0..255
GetOctet(M, octet) ==
    IF Len(octet) \in 1..3 /\ (\A i \in 1..Len(octet) : octet[i] \in Range(Digits))
       /\ DecVal(octet) <= 255 /\ DecStr(DecVal(octet)) = octet
    THEN DecStr(M.ipv4_octet[DecVal(octet)])
    ELSE octet

\* new_ipv4_address on an address of four octet texts
new_ipv4_address(M, octets) ==
    LET first_octet == octets[1]
    IN  IF \A i \in 1..4 : octets[i] = first_octet
        THEN [i \in 1..4 |-> GetOctet(M, first_octet)]
        ELSE [i \in 1..4 |->
                IF i = 1 \/ octets[i] = first_octet THEN first_octet
                ELSE GetOctet(M, octets[i])]

(***************************************************************************)
(* rewrite/rewritten.py: new_ipv6_address.  An address text is its eight   *)
(* groups as written; a compressed text is the groups before and after the *)
(* "::" (gap) with their leading zeros dropped.                            *)
(***************************************************************************)
ToLower(c) ==
    IF c \in Range(UpperHex) THEN LowerHex[IndexOf(UpperHex, c)] ELSE c

ToUpper(c) ==
    IF c \in Range(LowerHex) THEN UpperHex[IndexOf(LowerHex, c)] ELSE c

\* one group of ipaddress .exploded: lowercase, zero-filled to four digits
Pad4(g) ==
    [i \in 1..4 |-> IF i <= 4 - Len(g) THEN "0" ELSE ToLower(g[i - (4 - Len(g))])]

\* ipaddress.ip_address(text).exploded of an uncompressed text
Exploded(groups) == [i \in 1..Len(groups) |-> Pad4(groups[i])]

\* re.sub(r"[0-9:]+", "", stripped).isupper()
is_uppercase(groups) ==
    /\ \E i \in 1..Len(groups) : \E j \in 1..Len(groups[i]) :
           groups[i][j] \in Range(UpperHex)
    /\ \A i \in 1..Len(groups) : \A j \in 1..Len(groups[i]) :
           groups[i][j] \notin Range(LowerHex)

\* group.strip("0") is empty
IsZeroGroup(g) == AllIn(g, {"0"})

\* a group of the compressed form: leading zeros dropped, one digit kept
RECURSIVE StripZeros(_)
StripZeros(g) ==
    IF Len(g) > 1 /\ g[1] = "0" THEN StripZeros(DropFirst(g, 1)) ELSE g

\* length of the run of zero groups that starts at position i
RECURSIVE ZeroRun(_, _)
ZeroRun(gs, i) ==
    IF i > Len(gs) \/ ~IsZeroGroup(gs[i]) THEN 0 ELSE 1 + ZeroRun(gs, i + 1)

\* ipaddress .compressed: the first longest run of two or more zero groups
\* becomes "::"
Compressed(gs) ==
    LET best == CHOOSE i \in 1..Len(gs) :
                   /\ \A j \in 1..Len(gs) : ZeroRun(gs, j) <= ZeroRun(gs, i)
                   /\ \A j \in 1..(i - 1) : ZeroRun(gs, j) < ZeroRun(gs, i)
        run == ZeroRun(gs, best)
        strip(t) == [i \in 1..Len(t) |-> StripZeros(t[i])]
    IN  IF run >= 2
        THEN [gap |-> TRUE, head |-> strip(TakeFirst(gs, best - 1)),
              tail |-> strip(DropFirst(gs, best - 1 + run))]
        ELSE [gap |-> FALSE, head |-> strip(gs), tail |-> <<>>]

UpperText(c) ==
    [gap |-> c.gap,
     head |-> [i \in 1..Len(c.head) |-> [j \in 1..Len(c.head[i]) |-> ToUpper(c.head[i][j])]],
     tail |-> [i \in 1..Len(c.tail) |-> [j \in 1..Len(c.tail[i]) |-> ToUpper(c.tail[i][j])]]]

\* the eight exploded groups a compressed text stands for
ExplodedOf(c) ==
    Exploded(c.head)
      \o [i \in 1..(IF c.gap THEN 8 - Len(c.head) - Len(c.tail) ELSE 0) |->
            <<"0", "0", "0", "0">>]
      \o Exploded(c.tail)

\* the loop of new_ipv6_address over the exploded groups: the possible lists of
\* rewritten groups from position i on
RECURSIVE RewriteGroups(_, _, _, _)
RewriteGroups(M, groups, i, rewrite_started) ==
    IF i > Len(groups) THEN {<<>>}
    ELSE IF rewrite_started
    THEN { <<m>> \o rest :
             m \in apply_mapping(M, groups[i], M.ipv6_octet),
             rest \in RewriteGroups(M, groups, i + 1, TRUE) }
    ELSE { <<groups[i]>> \o rest :
             rest \in RewriteGroups(M, groups, i + 1, ~IsZeroGroup(groups[i])) }

\* the rewriter with rewrite_started set from the first group on
new_ipv6_address_from_start(M, address) ==
    LET full == Exploded(address)
    IN  IF \A i \in 1..8 : IsZeroGroup(full[i])
        THEN {[gap |-> FALSE, head |-> address, tail |-> <<>>]}
        ELSE { IF is_uppercase(address) THEN UpperText(Compressed(r))
               ELSE Compressed(r) :
                 r \in RewriteGroups(M, full, 1, TRUE) }

\* new_ipv6_address: the possible results; the unspecified address is returned
\* as it was written
new_ipv6_address(M, address) ==
    LET full == Exploded(address)
    IN  IF \A i \in 1..8 : IsZeroGroup(full[i])
        THEN {[gap |-> FALSE, head |-> address, tail |-> <<>>]}
        ELSE { IF is_uppercase(address) THEN UpperText(Compressed(r))
               ELSE Compressed(r) :
                 r \in RewriteGroups(M, full, 1, FALSE) }

(***************************************************************************)
(* Texts: a text is a sequence of characters.  The texts of the model are  *)
(* written with ASCII letters, digits, punctuation other than "_" and the  *)
(* whitespace characters below.                                            *)
(***************************************************************************)
LowerChars == Range(LowerLetters)
UpperChars == Range(UpperLetters)
LetterChars == LowerChars \cup UpperChars
DigitChars == Range(Digits)

\* \s, over the characters of the model
WhitespaceChars == {" ", "\t", "\f"}

\* string.punctuation, over the characters of the model (no backquote)
PunctChars ==
    {"!", "\"", "#", "$", "%", "&", "'", "(", ")", "*", "+", ",", "-", ".",
     "/", ":", ";", "<", "=", ">", "?", "@", "[", "\\", "]", "^", "_",
     "{", "|", "}", "~"}

\* \w, over the characters of the model
WordChars == LetterChars \cup DigitChars \cup {"_"}

\* str.lower() of one character
LowerOf(c) ==
    IF c \in UpperChars THEN LowerLetters[IndexOf(UpperLetters, c)] ELSE c

\* the length of the longest prefix of t written with characters of S
RECURSIVE RunLen(_, _)
RunLen(t, S) ==
    IF t = <<>> \/ t[1] \notin S THEN 0 ELSE 1 + RunLen(Tail(t), S)

\* the length of the longest prefix of t with no character of S
RECURSIVE GapLen(_, _)
GapLen(t, S) ==
    IF t = <<>> \/ t[1] \in S THEN 0 ELSE 1 + GapLen(Tail(t), S)

\* utils.split_by_matches(text, "[S]+"): the alternating runs of characters
\* outside S and inside S, in order
RECURSIVE split_by_matches(_, _)
split_by_matches(text, S) ==
    IF text = <<>> THEN <<>>
    ELSE LET n == IF text[1] \in S THEN RunLen(text, S) ELSE GapLen(text, S)
         IN  <<TakeFirst(text, n)>> \o split_by_matches(DropFirst(text, n), S)

\* "".join(parts)
RECURSIVE Join(_)
Join(parts) ==
    IF parts = <<>> THEN <<>> ELSE Head(parts) \o Join(Tail(parts))

\* the sequences that take one element from each set of a sequence of sets
RECURSIVE Choices(_)
Choices(sets) ==
    IF sets = <<>> THEN {<<>>}
    ELSE {<<h>> \o t : h \in Head(sets), t \in Choices(Tail(sets))}

\* the texts "".join(parts) for parts drawn one by one from a sequence of sets
JoinAll(sets) == {Join(c) : c \in Choices(sets)}

\* str.rstrip(chars)
RECURSIVE rstrip(_, _)
rstrip(text, chars) ==
    IF text # <<>> /\ text[Len(text)] \in chars
    THEN rstrip(TakeFirst(text, Len(text) - 1), chars)
    ELSE text

\* str.splitlines(keepends=True), over the line boundaries of the model:
\* "\n", "\r\n", "\r" and the form feed "\f"
RECURSIVE splitlines(_)
splitlines(text) ==
    IF text = <<>> THEN <<>>
    ELSE LET n == GapLen(text, {"\n", "\r", "\f"})
             brk == IF n = Len(text) THEN 0
                    ELSE IF text[n + 1] = "\r" /\ n + 2 <= Len(text)
                            /\ text[n + 2] = "\n"
                    THEN 2 ELSE 1
         IN  <<TakeFirst(text, n + brk)>> \o splitlines(DropFirst(text, n + brk))

(***************************************************************************)
(* rewrite/rewritten.py: new_mac_address.                                  *)
(***************************************************************************)
\* the separators of a MAC address: [.: -]
MacSepChars == {".", ":", " ", "-"}

\* the characters that \s matches and that str.strip() removes
SpaceChars == WhitespaceChars \cup {"\n", "\r"}

\* str.strip()
strip(text) ==
    LET lead == RunLen(text, SpaceChars)
        rest == SubSeq(text, lead + 1, Len(text))
    IN  rstrip(rest, SpaceChars)

\* re.search(r"[.: -]", stripped): the first separator, "" when there is none
FirstSep(text) ==
    LET at == {i \in 1..Len(text) : text[i] \in MacSepChars}
    IN  IF at = {} THEN <<>> ELSE <<text[SetMin(at)]>>

\* re.sub(r"[.: -]", "", stripped)
Compact(text) == SelectSeq(text, LAMBDA c : c \notin MacSepChars)

\* octet size: 2 chars normally, 3 chars for the dotted format
OctetSize(sep) == IF sep = <<".">> THEN 3 ELSE 2

\* re.findall(".{n}", compact): the full groups of n characters, in order
Chunks(text, n) ==
    [i \in 1..(Len(text) \div n) |-> SubSeq(text, (i - 1) * n + 1, i * n)]

\* sep.join(parts)
JoinWith(parts, sep) ==
    Join([i \in 1..Len(parts) |->
             IF i = 1 THEN parts[i] ELSE sep \o parts[i]])

\* midpoint: half of four or six octets, else 3
Midpoint(count) == IF count \in {4, 6} THEN count \div 2 ELSE 3

\* new_mac_address with every octet remapped
new_mac_address_from_start(M, address) ==
    LET sep == FirstSep(strip(address))
        octets == Chunks(Compact(strip(address)), OctetSize(sep))
    IN  IF Len(octets) % 2 = 1 \/ Len(octets) < 4 THEN {address}
        ELSE {JoinWith(c, sep) :
                c \in Choices([i \in 1..Len(octets) |->
                         apply_mapping(M, octets[i], M.mac_octet)])}

\* new_mac_address: the texts it can return
new_mac_address(M, address) ==
    LET sep == FirstSep(strip(address))
        octets == Chunks(Compact(strip(address)), OctetSize(sep))
        count == Len(octets)
        midpoint == Midpoint(count)
    IN  IF count % 2 = 1 \/ (count % 2 = 0 /\ count < 4) THEN {address}
        ELSE {JoinWith(SubSeq(octets, 1, midpoint) \o c, sep) :
                c \in Choices([i \in 1..(count - midpoint) |->
                         apply_mapping(M, octets[midpoint + i], M.mac_octet)])}

(***************************************************************************)
(* Inputs of the network model.                                            *)
(***************************************************************************)
\* the 32 contiguous netmasks, /1 .. /32
MaskOctet(p, k) ==
    LET bits == IF p >= 8 * k THEN 8
                ELSE IF p <= 8 * (k - 1) THEN 0 ELSE p - 8 * (k - 1)
    IN  256 - Pow2(8 - bits)

Netmask(p) == [k \in 1..4 |-> MaskOctet(p, k)]

\* the contiguous netmasks /1 to /32
Netmasks == {Netmask(p) : p \in 1..32}

Addresses ==
    { <<192, 168, 1, 1>>, <<192, 10, 1, 30>>, <<10, 0, 1, 10>>,
      <<10, 0, 0, 0>>, <<10, 255, 3, 4>>, <<0, 0, 0, 5>>,
      Netmask(16), Netmask(24), Netmask(32), Netmask(1) }

NoMapping == [loaded |-> FALSE]
NoCall == [fn |-> "none"]
NoBuilder == [built |-> FALSE, raised |-> ""]
NoParser == [parsed |-> FALSE]

InitNet ==
    /\ parsers = <<>>
    /\ withSources = TRUE
    /\ Mapping = NoMapping
    /\ rw = NoCall
    /\ builder = NoBuilder
    /\ dt = NoParser

\* parser = IPv4Parser(addr); parser.generate_new(source_parsers);
\* source_parsers.append(parser)
GenerateNew(octs, limit) ==
    /\ Len(parsers) < limit
    /\ rw = NoCall /\ Mapping = NoMapping
    /\ LET srcs == IF withSources THEN parsers ELSE <<>>
       IN  \E np \in IPv4GenerateNew(octs, srcs) :
             parsers' = Append(parsers,
                 [octs |-> octs, nsrc |-> Len(srcs),
                  new_address |-> np.new_address,
                  new_octets |-> np.new_octets])
    /\ UNCHANGED <<withSources, Mapping, rw, builder, dt>>

\* the address texts handed to new_ipv4_address: four decimal octets
AddressTexts ==
    { [i \in 1..4 |-> DecStr(a[i])] :
        a \in Addresses \cup {<<7, 7, 7, 7>>, <<192, 168, 192, 1>>,
                              <<0, 0, 0, 0>>} }

\* the IPv6 texts handed to new_ipv6_address, as their eight written groups
IPv6Texts ==
    { << <<"2","0","0","1">>, <<"D","B","8">>, <<"0">>, <<"0">>,
         <<"0">>, <<"0">>, <<"0">>, <<"1">> >>,
      << <<"0">>, <<"0">>, <<"0">>, <<"0">>,
         <<"0">>, <<"0">>, <<"0">>, <<"1">> >>,
      << <<"0">>, <<"0">>, <<"0">>, <<"0">>,
         <<"0">>, <<"0">>, <<"0">>, <<"0">> >>,
      << <<"f","e","8","0">>, <<"0">>, <<"0">>, <<"0">>,
         <<"b","0","1">>, <<"1","2","3">>, <<"a","B","c">>, <<"9">> >>,
      << <<"0">>, <<"0">>, <<"1">>, <<"2","0">>,
         <<"0">>, <<"0">>, <<"5">>, <<"6">> >>,
      << <<"1">>, <<"2">>, <<"3">>, <<"4">>,
         <<"5">>, <<"6">>, <<"7">>, <<"8">> >> }

\* the class body of Mapping, run when rewordapp.rewrite.mapping is imported
\* MAC addresses: six groups of two hexadecimal digits written with ":",
\* "-", " " or nothing between them, four dotted groups of three, and
\* other writings: eight groups, three dotted groups of four, mixed
\* separators, a leading blank, an odd number of groups
MacFirstHalves ==
    {<<<<"1", "1">>, <<"2", "2">>, <<"3", "3">>>>,
     <<<<"0", "a">>, <<"0", "0">>, <<"5", "E">>>>}

MacFourthGroups ==
    {<<"a", "a">>, <<"0", "7">>, <<"B", "2">>, <<"0", "0">>}

MacSixGroups ==
    {first \o <<fourth, <<"b", "b">>, <<"c", "9">>>> :
        first \in MacFirstHalves, fourth \in MacFourthGroups}

MacDottedGroups ==
    {<<<<"1", "1", "2">>, <<"2", "3", "3">>, third, <<"b", "c", "c">>>> :
        third \in {<<"a", "a", "b">>, <<"0", "b", "1">>, <<"0", "7", "f">>}}

MacOtherTexts ==
    {JoinWith([i \in 1..8 |-> <<Digits[i + 1], Digits[i + 1]>>], <<":">>),
     <<"a", "a", "b", "b", ".", "c", "c", "d", "d", ".", "e", "e", "f", "f">>,
     <<"1", "1", ":", "2", "2", "-", "3", "3", ":", "a", "a", ":", "b", "b",
       ":", "c", "c">>,
     <<" ", "1", "1", ":", "2", "2", ":", "3", "3", ":", "a", "a", ":", "b",
       "b", ":", "c", "c">>,
     <<"1", "1", ":", "2", "2", ":", "3", "3">>,
     <<"1", "1", ":", "2", "2", ":", "3", "3", ":", "4", "4", ":", "5", "5">>}

MacTexts ==
    {JoinWith(groups, sep) :
        groups \in MacSixGroups, sep \in {<<":">>, <<"-">>, <<" ">>, <<>>}}
    \cup {JoinWith(groups, <<".">>) : groups \in MacDottedGroups}
    \cup MacOtherTexts

LoadMapping ==
    /\ parsers = <<>> /\ Mapping = NoMapping
    /\ Mapping' \in Tables
    /\ rw' = NoCall
    /\ UNCHANGED <<parsers, withSources, builder, dt>>

\* rewritten.new_ipv4_address(address); the rewriters are functions of their
\* argument and of Mapping, so a behaviour holds one call
NewIPv4Address(address) ==
    /\ parsers = <<>> /\ Mapping.loaded /\ rw = NoCall
    /\ rw' = [fn |-> "new_ipv4_address", address |-> address,
              result |-> new_ipv4_address(Mapping, address)]
    /\ UNCHANGED <<parsers, withSources, Mapping, builder, dt>>

\* rewritten.new_ipv6_address(address)
NewIPv6Address(address) ==
    /\ parsers = <<>> /\ Mapping.loaded /\ rw = NoCall
    /\ \E r \in new_ipv6_address(Mapping, address) :
         rw' = [fn |-> "new_ipv6_address", address |-> address, result |-> r]
    /\ UNCHANGED <<parsers, withSources, Mapping, builder, dt>>

\* one call of new_mac_address with the tables as loaded
NewMacAddress(address) ==
    /\ parsers = <<>> /\ Mapping.loaded /\ rw = NoCall
    /\ \E result \in new_mac_address(Mapping, address) :
         rw' = [fn |-> "new_mac_address", address |-> address,
                result |-> result]
    /\ UNCHANGED <<parsers, withSources, Mapping, builder, dt>>

NextNet ==
    \/ \E octs \in Addresses : GenerateNew(octs, MaxParsers)
    \/ LoadMapping
    \/ \E address \in AddressTexts : NewIPv4Address(address)
    \/ \E address \in IPv6Texts : NewIPv6Address(address)
    \/ \E address \in MacTexts : NewMacAddress(address)

SpecNet == InitNet /\ [][NextNet]_vars

\* the same regeneration over every contiguous netmask
MaskAddresses ==
    Netmasks \cup {<<10, 255, 3, 4>>, <<255, 0, 255, 0>>}

InitMask ==
    /\ parsers = <<>>
    /\ withSources \in BOOLEAN
    /\ Mapping = NoMapping
    /\ rw = NoCall
    /\ builder = NoBuilder
    /\ dt = NoParser

NextMask == \E octs \in MaskAddresses : GenerateNew(octs, MaxParsers)

SpecMask == InitMask /\ [][NextMask]_vars

(***************************************************************************)
(* parser/fperm.py and new_file_permission of rewrite/rewritten.py.        *)
(***************************************************************************)
\* FilePermissionParser._parse: re.fullmatch of the case-insensitive pattern,
\* a Unix mode string or a six-character Windows mode
FilePermissionParser(text) ==
    LET at(i, S) == LowerOf(text[i]) \in S
        unix == /\ Len(text) \in 10..12
                /\ at(1, {"d", "l", "c", "b", "p", "s", "w", "-"})
                /\ \A g \in 0..2 :
                     /\ at(2 + 3 * g, {"r", "t", "s", "-"})
                     /\ at(3 + 3 * g, {"w", "t", "s", "-"})
                     /\ at(4 + 3 * g, {"x", "t", "s", "-"})
                /\ \A i \in 11..Len(text) : text[i] \in {"+", "@", ".", "-"}
        windows == /\ Len(text) = 6
                   /\ at(1, {"d", "-"})
                   /\ \A i \in 2..6 : at(i, {"r", "h", "s", "a", "i", "l", "-"})
    IN  [matched |-> unix \/ windows,
         file_permission |-> IF unix \/ windows THEN text ELSE <<>>]

\* remap of new_file_permission: the bit triple of an rwx group goes through
\* Mapping.file_permission, characters other than r, w, x, - stay
remap(M, bits) ==
    LET b(i) == IF bits[i] = "-" THEN 0 ELSE 1
        value == 4 * b(1) + 2 * b(2) + b(3)
        new_value == DigitVal(Get(M.file_permission, Digits[value + 1]))
        bit(i) == (new_value \div Pow2(3 - i)) % 2
        mapping == <<"r", "w", "x">>
    IN  [i \in 1..3 |->
            IF bits[i] \notin {"r", "w", "x", "-"} THEN bits[i]
            ELSE IF bit(i) = 0 THEN "-" ELSE mapping[i]]

new_file_permission(M, perm) ==
    IF Len(perm) >= 10
    THEN IF \A i \in 2..10 : perm[i] = "-" THEN perm
         ELSE <<perm[1]>> \o remap(M, SubSeq(perm, 2, 4))
                  \o remap(M, SubSeq(perm, 5, 7)) \o remap(M, SubSeq(perm, 8, 10))
                  \o DropFirst(perm, 10)
    ELSE MapChars(perm, M.win_file_mode)

(***************************************************************************)
(* parser/number.py and new_number of rewrite/rewritten.py.                *)
(***************************************************************************)
\* [^\w\s], over the characters of the model
NonWordChars == PunctChars \ {"_"}

\* the suffix group [a-z]*[punct]*, case-insensitive, matched to the end
IsNumberSuffix(s) ==
    AllIn(DropFirst(s, RunLen(s, LetterChars)), PunctChars)

\* the length of the number group matched at the start of rest, its suffix
\* reaching the end of the text; 0 when no alternative matches.  The
\* alternatives are tried in the order of the pattern: digits.digits, .digits,
\* digits., digits
NumberLen(rest) ==
    LET d == RunLen(rest, DigitChars)
        dot == d + 1 <= Len(rest) /\ rest[d + 1] = "."
        e == IF dot THEN RunLen(DropFirst(rest, d + 1), DigitChars) ELSE 0
    IN  IF d >= 1 /\ dot /\ e >= 1 /\ IsNumberSuffix(DropFirst(rest, d + 1 + e))
        THEN d + 1 + e
        ELSE IF d = 0 /\ dot /\ e >= 1 /\ IsNumberSuffix(DropFirst(rest, 1 + e))
        THEN 1 + e
        ELSE IF d >= 1 /\ dot /\ IsNumberSuffix(DropFirst(rest, d + 1))
        THEN d + 1
        ELSE IF d >= 1 /\ IsNumberSuffix(DropFirst(rest, d))
        THEN d
        ELSE 0

\* NumberParser._parse: re.fullmatch of prefix? number suffix?; the prefix
\* group is lazy, so the shortest prefix that lets the rest match is taken,
\* and no prefix when none does
NumberParser(text) ==
    LET p == RunLen(text, NonWordChars)
        cands == {n \in 1..p : NumberLen(DropFirst(text, n)) > 0}
        n == IF cands # {} THEN SetMin(cands) ELSE 0
        len == NumberLen(DropFirst(text, n))
    IN  [matched |-> len > 0,
         prefix |-> IF len > 0 THEN TakeFirst(text, n) ELSE <<>>,
         number |-> IF len > 0 THEN SubSeq(text, n + 1, n + len) ELSE <<>>,
         suffix |-> IF len > 0 THEN DropFirst(text, n + len) ELSE <<>>]

\* text.isdigit() and int(text) == 0
IsZeroText(t) == t # <<>> /\ AllIn(t, {"0"})

\* the leading-zero repair: re.match(r"0[0-9]", rewritten) puts
\* Mapping.first_digit in place of the first character
FixLeadingZero(M, t) ==
    IF Len(t) >= 2 /\ t[1] = "0" /\ t[2] \in DigitChars
    THEN <<M.first_digit>> \o DropFirst(t, 1)
    ELSE t

\* new_number on the number group of a NumberParser (digits with at most one
\* "."): the possible rewritings
new_number(M, text) ==
    IF \E i \in 1..Len(text) : text[i] = "."
    THEN LET j == CHOOSE i \in 1..Len(text) : text[i] = "."
             base == TakeFirst(text, j - 1)
             fraction == DropFirst(text, j)
             new_base == IF IsZeroText(base) THEN {base}
                         ELSE apply_mapping(M, base, M.base_number)
             new_fraction == IF IsZeroText(fraction) THEN {fraction}
                             ELSE apply_mapping(M, fraction, M.fraction_number)
         IN  IF AllIn(base \o fraction, {"0"})      \* float(text) == 0
             THEN {text}
             ELSE {FixLeadingZero(M, nb \o <<".">> \o nf) :
                      nb \in new_base, nf \in new_fraction}
    ELSE IF Len(text) >= 2 /\ text[1] = "0" /\ AllIn(DropFirst(text, 1), {"0", "1"})
    THEN generate_random_binary(text)
    ELSE IF Len(text) >= 2 /\ text[1] = "0" /\ AllIn(DropFirst(text, 1), OctChars)
    THEN apply_mapping(M, text, M.octal)
    ELSE {FixLeadingZero(M, r) : r \in apply_mapping(M, text, M.base_number)}

(***************************************************************************)
(* wordparser.py (the WordParser that core/token.py imports as             *)
(* rewordapp.parser.word) and new_word of rewrite/rewritten.py.            *)
(***************************************************************************)
\* the length of the longest \w+([punct]+\w+)* at the start of t
RECURSIVE WordLen(_)
WordLen(t) ==
    LET w == RunLen(t, WordChars)
        q == RunLen(DropFirst(t, w), PunctChars)
        more == IF w > 0 /\ q > 0 THEN WordLen(DropFirst(t, w + q)) ELSE 0
    IN  IF w = 0 THEN 0 ELSE IF more > 0 THEN w + q + more ELSE w

\* WordParser._parse: re.match of prefix? word suffix? at the start of the
\* text; what follows the suffix is not part of the match
WordParser(text) ==
    LET p == RunLen(text, PunctChars)
        n == WordLen(DropFirst(text, p))
        s == RunLen(DropFirst(text, p + n), PunctChars)
    IN  [matched |-> n > 0,
         prefix |-> IF n > 0 THEN TakeFirst(text, p) ELSE <<>>,
         word |-> IF n > 0 THEN SubSeq(text, p + 1, p + n) ELSE <<>>,
         suffix |-> IF n > 0 THEN SubSeq(text, p + n + 1, p + n + s) ELSE <<>>]

\* select_mapping of new_word: a single letter goes through Mapping.letters,
\* every other segment through Mapping.alphanumeric
select_mapping(M, segment) ==
    IF Len(segment) = 1 /\ segment[1] \in LetterChars
    THEN M.letters
    ELSE M.alphanumeric

\* new_word under tables rebuilt at each call
new_word_fresh_tables(M, text) ==
    IF AllIn(text, WhitespaceChars) THEN {text}
    ELSE LET items == split_by_matches(text, PunctChars)
         IN  UNION { JoinAll([i \in 1..Len(items) |->
                        apply_mapping(T, items[i], select_mapping(T, items[i]))]) :
                     T \in Tables }

\* new_word: the possible rewritings.  ext_pattern needs a "." in the text;
\* the words of the model hold none, so first is the text and last is empty
new_word(M, text) ==
    IF AllIn(text, WhitespaceChars) THEN {text}
    ELSE LET items == split_by_matches(text, PunctChars)
         IN  JoinAll([i \in 1..Len(items) |->
                        apply_mapping(M, items[i], select_mapping(M, items[i]))])

(***************************************************************************)
(* The IPv4Parser that core/token.py imports from rewordapp.parser.net.    *)
(* That module is not in the source tree: the parser is modelled from the  *)
(* specification (section 4.5) on plain dotted quads, regenerated through  *)
(* new_ipv4_address unless the address is a netmask.                       *)
(***************************************************************************)
\* recognition of four decimal octets of value 0..255 separated by dots
IPv4Parser(text) ==
    LET parts == split_by_matches(text, {"."})
        isOctet(t) == Len(t) \in 1..3 /\ AllIn(t, DigitChars) /\ DecVal(t) <= 255
        ok == /\ Len(parts) = 7
              /\ \A i \in {2, 4, 6} : parts[i] = <<".">>
              /\ \A i \in {1, 3, 5, 7} : isOctet(parts[i])
    IN  [matched |-> ok,
         octets |-> IF ok THEN <<parts[1], parts[3], parts[5], parts[7]>>
                    ELSE <<>>]

\* generate_new().raw of a matched IPv4Parser: a netmask is never rewritten
IPv4ParserGenerateNew(M, octets) ==
    LET new == IF [i \in 1..4 |-> DecVal(octets[i])] \in Netmasks THEN octets
               ELSE new_ipv4_address(M, octets)
    IN  new[1] \o <<".">> \o new[2] \o <<".">> \o new[3] \o <<".">> \o new[4]

(***************************************************************************)
(* The values of a rule document, as yaml.safe_load returns them.  A value *)
(* carries its Python type and, under the field of that type, its content: *)
(* int for an integer or a boolean, str for a string and for the repr of a *)
(* float or a mapping, items for a list.                                   *)
(***************************************************************************)
IntVal(n) == [items |-> <<>>, type |-> "int", int |-> n, str |-> <<>>]
StrVal(s) == [items |-> <<>>, type |-> "str", int |-> 0, str |-> s]
BoolVal(b) ==
    [items |-> <<>>, type |-> "bool", int |-> IF b THEN 1 ELSE 0, str |-> <<>>]
NoneVal == [items |-> <<>>, type |-> "none", int |-> 0, str |-> <<>>]
FloatVal(repr) == [items |-> <<>>, type |-> "float", int |-> 0, str |-> repr]
DictVal(repr) == [items |-> <<>>, type |-> "dict", int |-> 0, str |-> repr]
ListVal(items) == [items |-> items, type |-> "list", int |-> 0, str |-> <<>>]

\* isinstance(value, int): a boolean is an integer
IsInt(value) == value.type \in {"int", "bool"}

\* bool(value)
Truthy(value) ==
    IF value.type = "none" THEN FALSE
    ELSE IF IsInt(value) THEN value.int # 0
    ELSE IF value.type = "str" THEN value.str # <<>>
    ELSE IF value.type = "float" THEN value.str # <<"0", ".", "0">>
    ELSE IF value.type = "dict" THEN value.str # <<"{", "}">>
    ELSE value.items # <<>>

\* str(n) of an integer
IntStr(n) == IF n < 0 THEN <<"-">> \o DecStr(0 - n) ELSE DecStr(n)

\* repr(value)
RECURSIVE PyRepr(_)
PyRepr(value) ==
    IF value.type = "int" THEN IntStr(value.int)
    ELSE IF value.type = "bool"
    THEN IF value.int = 1 THEN <<"T", "r", "u", "e">>
         ELSE <<"F", "a", "l", "s", "e">>
    ELSE IF value.type = "none" THEN <<"N", "o", "n", "e">>
    ELSE IF value.type = "str" THEN <<"'">> \o value.str \o <<"'">>
    ELSE IF value.type \in {"float", "dict"} THEN value.str
    ELSE <<"[">>
         \o JoinWith([i \in 1..Len(value.items) |-> PyRepr(value.items[i])],
                     <<",", " ">>)
         \o <<"]">>

\* str(value)
PyStr(value) == IF value.type = "str" THEN value.str ELSE PyRepr(value)

\* str.lower()
lower(text) == [i \in 1..Len(text) |-> LowerOf(text[i])]

\* re.fullmatch(r"[+-]?\d+", text), with the signs allowed
IsSignedDigits(text, signs) ==
    /\ text # <<>>
    /\ LET ds == IF text[1] \in signs THEN Tail(text) ELSE text
       IN  ds # <<>> /\ AllIn(ds, DigitChars)

\* int(text) of a signed decimal text
IntOf(text) ==
    IF text[1] = "-" THEN 0 - DecVal(Tail(text))
    ELSE IF text[1] = "+" THEN DecVal(Tail(text))
    ELSE DecVal(text)

\* text.split(ch)
RECURSIVE SplitOn(_, _)
SplitOn(text, ch) ==
    LET n == GapLen(text, {ch})
    IN  IF n = Len(text) THEN <<text>>
        ELSE <<TakeFirst(text, n)>> \o SplitOn(DropFirst(text, n + 1), ch)

\* the zero-based indices that items[slc] selects among total items, for
\* slc = slice(start, stop), or slice(start, None) when it is open
SliceIndices(slc, total) ==
    LET clamp(n) == IF n < 0 THEN (IF total + n < 0 THEN 0 ELSE total + n)
                    ELSE IF n > total THEN total ELSE n
        first == clamp(slc.start)
        last == IF slc.open THEN total ELSE clamp(slc.stop)
    IN  {k \in 0..(total - 1) : first <= k /\ k < last}

\* items[slc]
Sliced(items, slc) ==
    LET picked == SliceIndices(slc, Len(items))
    IN  IF picked = {} THEN <<>>
        ELSE [i \in 1..Cardinality(picked) |-> items[SetMin(picked) + i]]

(***************************************************************************)
(* rules/dt.py: DateTimeTokenRule.  A rule is the record of its            *)
(* attributes, with the exception its constructor raised ("" for none).    *)
(* The width is a number or eol.                                           *)
(***************************************************************************)
FlagTexts ==
    {<<"t", "r", "u", "e">>, <<"f", "a", "l", "s", "e">>,
     <<"y", "e", "s">>, <<"n", "o">>}

OpenWidthTexts ==
    {<<"e", "o", "l">>, <<"n", "o", "n", "e">>, <<"n", "u", "l", "l">>}

RewriteFlagTexts == {<<"t", "r", "u", "e">>, <<"y", "e", "s">>}

\* self._width: int(width) when the text is made of digits, else "eol"
WidthOf(text) ==
    IF text # <<>> /\ AllIn(text, DigitChars)
    THEN [eol |-> FALSE, n |-> DecVal(text)]
    ELSE [eol |-> TRUE, n |-> 0]

\* the rule of a constructor that raised
DateTimeRuleError ==
    [error |-> "DateTimeRuleError", is_parsed |-> FALSE, is_rewrite |-> FALSE,
     start_pos |-> 0, width |-> [eol |-> TRUE, n |-> 0]]

\* the rule parsed from a flag, an index and a width
ParsedDateTimeRule(flag, index_str, width) ==
    [error |-> "", is_parsed |-> TRUE, is_rewrite |-> flag \in RewriteFlagTexts,
     start_pos |-> IntOf(index_str), width |-> width]

\* DateTimeTokenRule._parse_list_type, for a list
parse_list_type(raw) ==
    IF Len(raw.items) \notin {2, 3} THEN DateTimeRuleError
    ELSE LET items == [i \in 1..Len(raw.items) |->
                         lower(strip(PyStr(raw.items[i])))]
             width_str == IF Len(items) = 2 THEN <<"1">> ELSE items[3]
         IN  IF items[1] \notin FlagTexts THEN DateTimeRuleError
             ELSE IF ~IsSignedDigits(items[2], {"+", "-"})
             THEN DateTimeRuleError
             ELSE IF ~(\/ (width_str # <<>> /\ AllIn(width_str, DigitChars))
                       \/ width_str \in OpenWidthTexts)
             THEN DateTimeRuleError
             ELSE ParsedDateTimeRule(items[1], items[2], WidthOf(width_str))

\* DateTimeTokenRule._parse_string_type, for a value that is not a list:
\* flag , start and an optional , width, with blanks around the commas
parse_string_type(raw) ==
    IF raw.type # "str" THEN DateTimeRuleError
    ELSE LET parts == SplitOn(strip(raw.str), ",")
             flag == IF Len(parts) >= 1 THEN lower(rstrip(parts[1], SpaceChars))
                     ELSE <<>>
             start == IF Len(parts) >= 2 THEN strip(parts[2]) ELSE <<>>
             width == IF Len(parts) >= 3 THEN lower(strip(parts[3])) ELSE <<>>
         IN  IF \/ Len(parts) \notin {2, 3}
                \/ flag \notin FlagTexts
                \/ ~IsSignedDigits(start, {"-"})
                \/ ~(\/ width = <<>>
                     \/ AllIn(width, DigitChars)
                     \/ width \in OpenWidthTexts)
             THEN DateTimeRuleError
             ELSE ParsedDateTimeRule(flag, start,
                      IF width = <<>> THEN [eol |-> FALSE, n |-> 1]
                      ELSE WidthOf(width))

\* DateTimeTokenRule(rule_value)
DateTimeTokenRule(rule_value) ==
    IF rule_value.type = "list" THEN parse_list_type(rule_value)
    ELSE parse_string_type(rule_value)

\* extract_segments with every start position taken as a position from
\* the start of the line
extract_segments_from_start(rule, items) ==
    LET start_pos == IF rule.start_pos < 0 THEN 0 - rule.start_pos
                     ELSE IF rule.start_pos = 0 THEN 1 ELSE rule.start_pos
    IN  Sliced(items, [start |-> start_pos - 1,
                       stop |-> start_pos - 1 + rule.width.n,
                       open |-> rule.width.eol])

\* DateTimeTokenRule.extract_segments
extract_segments(rule, items) ==
    LET total == Len(items)
        start_pos == IF rule.start_pos = 0 THEN 1 ELSE rule.start_pos
        start_index == IF start_pos >= 0 THEN start_pos - 1 ELSE start_pos
    IN  IF start_pos > 0 /\ start_pos > total THEN items
        ELSE Sliced(items, [start |-> start_index,
                            stop |-> start_index + rule.width.n,
                            open |-> rule.width.eol])

(***************************************************************************)
(* libs/utils.py: text patterns.  A pattern is the text of a regular       *)
(* expression; re_search reads the expressions that text_to_pattern and    *)
(* UnchangedLinesRule._to_index_or_pattern write: an optional (?i), then   *)
(* [0-9]+, \s+, an escaped character or a plain character.                 *)
(***************************************************************************)
\* the punctuation that re.escape writes with a backslash
EscapedChars ==
    {"#", "$", "&", "(", ")", "*", "+", "-", ".", "?", "[", "\\", "]", "^",
     "{", "|", "}", "~"}

\* re.escape(tok) of a run of punctuation
escape(tok) ==
    Join([i \in 1..Len(tok) |->
            IF tok[i] \in EscapedChars THEN <<"\\", tok[i]>> ELSE <<tok[i]>>])

\* the class of characters a token of text_to_pattern is made of
TokenClass(c) ==
    IF c \in SpaceChars THEN SpaceChars
    ELSE IF c \in LetterChars THEN LetterChars
    ELSE IF c \in PunctChars THEN PunctChars
    ELSE DigitChars

\* text_to_pattern without the (?i): one part per run of whitespace,
\* letters, punctuation or digits
RECURSIVE pattern_parts(_)
pattern_parts(source) ==
    IF source = <<>> THEN <<>>
    ELSE LET class == TokenClass(source[1])
             n == RunLen(source, class)
             tok == TakeFirst(source, n)
             part == IF class = PunctChars THEN escape(tok)
                     ELSE IF class = DigitChars
                     THEN <<"[", "0", "-", "9", "]", "+">>
                     ELSE IF class = SpaceChars THEN <<"\\", "s", "+">>
                     ELSE tok
         IN  part \o pattern_parts(DropFirst(source, n))

\* text_to_pattern(source), ignore_case=True
text_to_pattern(source) == <<"(", "?", "i", ")">> \o pattern_parts(source)

\* the pieces of a regular expression, in order
RECURSIVE RegexPieces(_)
RegexPieces(src) ==
    IF src = <<>> THEN <<>>
    ELSE IF Len(src) >= 6 /\ TakeFirst(src, 6) = <<"[", "0", "-", "9", "]", "+">>
    THEN <<[kind |-> "digits", ch |-> "0"]>> \o RegexPieces(DropFirst(src, 6))
    ELSE IF Len(src) >= 3 /\ TakeFirst(src, 3) = <<"\\", "s", "+">>
    THEN <<[kind |-> "spaces", ch |-> " "]>> \o RegexPieces(DropFirst(src, 3))
    ELSE IF Len(src) >= 2 /\ src[1] = "\\"
    THEN <<[kind |-> "char", ch |-> src[2]]>> \o RegexPieces(DropFirst(src, 2))
    ELSE <<[kind |-> "char", ch |-> src[1]]>> \o RegexPieces(Tail(src))

\* the positions after a match of the pieces that starts at position pos
RECURSIVE MatchEnds(_, _, _, _)
MatchEnds(pieces, text, pos, ignore_case) ==
    IF pieces = <<>> THEN {pos}
    ELSE LET piece == Head(pieces)
             rest == DropFirst(text, pos - 1)
         IN  IF piece.kind = "char"
             THEN IF /\ rest # <<>>
                     /\ \/ rest[1] = piece.ch
                        \/ ignore_case /\ LowerOf(rest[1]) = LowerOf(piece.ch)
                  THEN MatchEnds(Tail(pieces), text, pos + 1, ignore_case)
                  ELSE {}
             ELSE LET n == RunLen(rest, IF piece.kind = "digits"
                                        THEN DigitChars ELSE SpaceChars)
                  IN  UNION {MatchEnds(Tail(pieces), text, pos + k, ignore_case) :
                               k \in 1..n}

\* bool(re.search(pattern, text))
re_search(pattern, text) ==
    LET ignore_case == Len(pattern) >= 4
                       /\ TakeFirst(pattern, 4) = <<"(", "?", "i", ")">>
        pieces == RegexPieces(IF ignore_case THEN DropFirst(pattern, 4)
                              ELSE pattern)
    IN  \E pos \in 1..(Len(text) + 1) :
            MatchEnds(pieces, text, pos, ignore_case) # {}

\* TextMatcher.matches(text)
matches(patterns, text) ==
    \E i \in 1..Len(patterns) : re_search(patterns[i], text)

(***************************************************************************)
(* rules/unchanged.py: UnchangedLinesRule.  A rule is the record of its    *)
(* attributes, with the exception its constructor raised ("" for none).    *)
(* A bound of a pair is an integer or the text of a pattern; a slice is    *)
(* slice(start, stop), or slice(start, None) when it is open.              *)
(***************************************************************************)
\* an index kept one-based
ToIndex_one_based(value) == value

\* the zero-based form of an index: value if value <= 0 else value - 1
ToIndex(value) == IF value <= 0 THEN value ELSE value - 1

IntBound(n) == [kind |-> "int", int |-> n, str |-> <<>>]
StrBound(s) == [kind |-> "str", int |-> 0, str |-> s]

\* re.fullmatch(r"(?i)w\d+", text)
IsWidthText(text) ==
    /\ Len(text) >= 2
    /\ text[1] \in {"w", "W"}
    /\ AllIn(Tail(text), DigitChars)

\* UnchangedLinesRule._to_index_or_pattern
to_index_or_pattern(value) ==
    IF value.type = "none" THEN StrBound(<<"e", "o", "f">>)
    ELSE LET text == strip(PyStr(value))
         IN  IF IsSignedDigits(text, {"+", "-"}) THEN IntBound(IntOf(text))
             ELSE IF lower(text) = <<"e", "o", "f">> THEN StrBound(text)
             ELSE IF lower(text) \in {<<"n", "o", "n", "e">>,
                                      <<"n", "u", "l", "l">>}
             THEN IntBound(0)
             ELSE IF IsWidthText(text) THEN StrBound(lower(text))
             ELSE StrBound(text_to_pattern(text))

\* a rule with nothing parsed
NoRule ==
    [error |-> "", is_parsed |-> FALSE, indices |-> <<>>,
     slice_indices |-> <<>>, patterns |-> <<>>, pairs |-> <<>>]

\* the rule of a constructor that raised
Raised(error) == [NoRule EXCEPT !.error = error]

\* isinstance(start, (int, str)) and (isinstance(stop, (int, str)) or
\* stop is None), for a list of two items
IsPair(value) ==
    /\ value.type = "list" /\ Len(value.items) = 2
    /\ IsInt(value.items[1]) \/ value.items[1].type = "str"
    /\ \/ IsInt(value.items[2])
       \/ value.items[2].type \in {"str", "none"}

\* UnchangedLinesRule._validate_ranges: whether the value passes
validate_ranges(raw) ==
    /\ raw.type = "list"
    /\ IF \A i \in 1..Len(raw.items) :
             raw.items[i].type = "list" /\ Len(raw.items[i].items) = 2
       THEN \A i \in 1..Len(raw.items) : IsPair(raw.items[i])
       ELSE IsPair(raw)

\* the normalized pair of a [start, stop] list
NormalizedPair(pair) ==
    LET start_val == to_index_or_pattern(pair.items[1])
    IN  <<IF start_val.kind = "int" /\ start_val.int > 0
          THEN IntBound(start_val.int - 1) ELSE start_val,
          to_index_or_pattern(pair.items[2])>>

\* UnchangedLinesRule._parse_list_ranges, for a value that is neither a
\* string nor an integer
parse_list_ranges(raw) ==
    IF ~validate_ranges(raw) THEN Raised("UnchangedLinesError")
    ELSE IF raw.items = <<>> THEN Raised("IndexError")
    ELSE LET pairs == IF raw.items[1].type = "list" THEN raw.items
                      ELSE <<raw>>
         IN  [NoRule EXCEPT
                !.pairs = [i \in 1..Len(pairs) |-> NormalizedPair(pairs[i])],
                !.is_parsed = TRUE]

\* re.split(r"\s*,\s*", text)
split_items(text) ==
    LET parts == SplitOn(text, ",")
    IN  [i \in 1..Len(parts) |->
           LET left == IF i > 1
                       THEN DropFirst(parts[i], RunLen(parts[i], SpaceChars))
                       ELSE parts[i]
           IN  IF i < Len(parts) THEN rstrip(left, SpaceChars) ELSE left]

\* re.fullmatch(r"(?i)(null|none|-?\d+):(eof|[w-]?\d+)", text)
IsSliceText(text) ==
    LET parts == SplitOn(lower(text), ":")
    IN  /\ Len(parts) = 2
        /\ \/ parts[1] \in {<<"n", "u", "l", "l">>, <<"n", "o", "n", "e">>}
           \/ IsSignedDigits(parts[1], {"-"})
        /\ \/ parts[2] = <<"e", "o", "f">>
           \/ IsSignedDigits(parts[2], {"w", "-"})

\* the slices an item "a:b" adds, from a and b as item.lower().split(":")
\* gives them
SliceOf(a, b) ==
    LET start == ToIndex(IF a \in {<<"n", "u", "l", "l">>, <<"n", "o", "n", "e">>}
                         THEN 0 ELSE IntOf(strip(a)))
    IN  IF b = <<"e", "o", "f">>
        THEN <<[start |-> start, stop |-> 0, open |-> TRUE]>>
        ELSE IF b[1] = "w"
        THEN LET width == DecVal(strip(Tail(b)))
                 stop == start + width
             IN  IF width = 0 THEN <<>>
                 ELSE IF start < 0 /\ 0 <= stop
                 THEN <<[start |-> start, stop |-> 0, open |-> TRUE]>>
                 ELSE IF stop > start
                 THEN <<[start |-> start, stop |-> stop, open |-> FALSE]>>
                 ELSE <<>>
        ELSE LET given == IntOf(strip(b))
                 stop == IF given >= 0 THEN given ELSE given + 1
             IN  IF start < 0 /\ stop = 0
                 THEN <<[start |-> start, stop |-> 0, open |-> TRUE]>>
                 ELSE IF stop > start
                 THEN <<[start |-> start, stop |-> stop, open |-> FALSE]>>
                 ELSE <<>>

\* whether int(a) or int(b) raises for a slice item: a is not a number once
\* "null" and "none" are set aside, or b is neither "eof", a width nor a
\* number (blanks around a number are accepted by int)
SliceRaises(a, b) ==
    \/ /\ a \notin {<<"n", "u", "l", "l">>, <<"n", "o", "n", "e">>}
       /\ ~IsSignedDigits(strip(a), {"-"})
    \/ /\ b # <<"e", "o", "f">>
       /\ IF b[1] = "w" THEN ~IsSignedDigits(strip(Tail(b)), {})
          ELSE ~IsSignedDigits(strip(b), {"-"})

\* the loop of UnchangedLinesRule._parse_string_ranges over the items
RECURSIVE parse_items(_, _)
parse_items(items, rule) ==
    IF items = <<>> \/ rule.error # "" THEN rule
    ELSE LET item == Head(items)
             text == strip(item)
             parts == SplitOn(lower(item), ":")
         IN  parse_items(Tail(items),
               IF IsSignedDigits(text, {"-"})
               THEN [rule EXCEPT
                       !.indices = @ \o <<ToIndex(IntOf(text))>>]
               ELSE IF lower(text) = <<"e", "o", "f">>
               THEN [rule EXCEPT !.indices = @ \o <<0 - 1>>]
               ELSE IF IsSliceText(text)
               THEN IF SliceRaises(parts[1], parts[2])
                    THEN [rule EXCEPT !.error = "ValueError"]
                    ELSE [rule EXCEPT
                            !.slice_indices = @ \o SliceOf(parts[1], parts[2])]
               ELSE IF item # <<>>
               THEN [rule EXCEPT !.patterns = @ \o <<text_to_pattern(item)>>]
               ELSE rule)

\* UnchangedLinesRule._parse_string_ranges, for a value that is not a list
parse_string_ranges(raw) ==
    IF ~(raw.type = "str" \/ IsInt(raw)) THEN Raised("UnchangedLinesError")
    ELSE IF IsInt(raw)
    THEN [NoRule EXCEPT !.indices = <<ToIndex(raw.int)>>, !.is_parsed = TRUE]
    ELSE LET rule == parse_items(split_items(raw.str), NoRule)
         IN  [rule EXCEPT
                !.is_parsed = /\ rule.error = ""
                              /\ \/ rule.indices # <<>>
                                 \/ rule.slice_indices # <<>>
                                 \/ rule.patterns # <<>>]

\* UnchangedLinesRule(rule_value)
UnchangedLinesRule(rule_value) ==
    IF rule_value.type = "str" \/ IsInt(rule_value)
    THEN parse_string_ranges(rule_value)
    ELSE parse_list_ranges(rule_value)

\* line.raw
RawOf(line) == line.content \o line.newline

\* UnchangedLinesRule._apply_index_rules
apply_index_rules(rule, lines) ==
    LET total == Len(lines)
        sliced == UNION {SliceIndices(rule.slice_indices[i], total) :
                           i \in 1..Len(rule.slice_indices)}
        resolved_indices ==
            {IF rule.indices[i] >= 0 THEN rule.indices[i]
             ELSE total + rule.indices[i] : i \in 1..Len(rule.indices)}
        listed(n) == /\ rule.indices # <<>> \/ rule.patterns # <<>>
                     /\ \/ (n - 1) \in resolved_indices
                        \/ matches(rule.patterns, RawOf(lines[n]))
    IN  [n \in 1..total |->
           IF ~lines[n].unchanged /\ ((n - 1) \in sliced \/ listed(n))
           THEN [lines[n] EXCEPT !.unchanged = TRUE]
           ELSE lines[n]]

\* match_rule that matches no text
match_rule_index_only(idx, rule, text, total) ==
    /\ rule.kind = "int"
    /\ (IF rule.int >= 0 THEN rule.int ELSE total + rule.int) = idx

\* match_rule of _apply_pair_rules
match_rule(idx, rule, text, total) ==
    IF rule.kind = "str" THEN re_search(rule.str, text)
    ELSE LET resolved == IF rule.int >= 0 THEN rule.int ELSE total + rule.int
         IN  (IF resolved > 0 THEN resolved ELSE 0) = idx

\* the loop of _apply_pair_rules over the lines for one pair, from the line
\* of zero-based index idx on
RECURSIVE ScanPair(_, _, _, _, _)
ScanPair(lines, idx, start_rule, stop_rule, in_range) ==
    IF idx >= Len(lines) THEN lines
    ELSE LET total == Len(lines)
             raw == RawOf(lines[idx + 1])
             stops == in_range /\ match_rule(idx, stop_rule, raw, total)
             starts == match_rule(idx, start_rule, raw, total)
             marked == [lines EXCEPT ![idx + 1].unchanged =
                          IF in_range \/ (starts /\ ~stops) THEN TRUE ELSE @]
             width == IF stop_rule.kind = "str" /\ IsWidthText(stop_rule.str)
                      THEN DecVal(Tail(stop_rule.str)) ELSE 0 - 1
         IN  IF stops THEN marked
             ELSE IF ~starts
             THEN ScanPair(marked, idx + 1, start_rule, stop_rule, in_range)
             ELSE IF start_rule.kind = "int" /\ start_rule = stop_rule
             THEN marked
             ELSE IF width \in {0, 1}
             THEN [marked EXCEPT ![idx + 1].unchanged = (width = 1)]
             ELSE ScanPair(marked, idx + 1, start_rule,
                           IF width > 1 THEN IntBound(idx + width - 1)
                           ELSE stop_rule,
                           TRUE)

\* one pair of _apply_pair_rules: a numeric pair is skipped when its stop is
\* before its start, else both bounds are taken as one-based
ApplyPair(lines, pair) ==
    LET numeric == pair[1].kind = "int" /\ pair[2].kind = "int"
        shift(rule) == IF rule.int > 0 THEN IntBound(rule.int - 1) ELSE rule
    IN  IF numeric /\ pair[2].int < pair[1].int THEN lines
        ELSE IF numeric
        THEN ScanPair(lines, 0, shift(pair[1]), shift(pair[2]), FALSE)
        ELSE ScanPair(lines, 0, pair[1], pair[2], FALSE)

\* UnchangedLinesRule._apply_pair_rules
RECURSIVE apply_pair_rules(_, _)
apply_pair_rules(pairs, lines) ==
    IF pairs = <<>> THEN lines
    ELSE apply_pair_rules(Tail(pairs), ApplyPair(lines, Head(pairs)))

\* UnchangedLinesRule.apply_unchanged_lines
apply_unchanged_lines(rule, lines) ==
    IF lines = <<>> THEN lines
    ELSE IF rule.indices # <<>> \/ rule.slice_indices # <<>>
            \/ rule.patterns # <<>>
    THEN apply_index_rules(rule, lines)
    ELSE IF rule.pairs # <<>> THEN apply_pair_rules(rule.pairs, lines)
    ELSE lines

(***************************************************************************)
(* rules/__init__.py: the rules read from a RewriteRules mapping.          *)
(***************************************************************************)
\* RewriteRules.get_datetime_token_rule: no rule for a value that is false
get_datetime_token_rule(rules) ==
    IF "rewrite_datetime" \in DOMAIN rules /\ Truthy(rules["rewrite_datetime"])
    THEN DateTimeTokenRule(rules["rewrite_datetime"])
    ELSE [DateTimeRuleError EXCEPT !.error = ""]

\* RewriteRules.get_unchanged_lines_rule: a rule for a string, an integer
\* or a list only
get_unchanged_lines_rule(rules) ==
    IF /\ "unchanged_lines" \in DOMAIN rules
       /\ \/ rules["unchanged_lines"].type \in {"str", "list"}
          \/ IsInt(rules["unchanged_lines"])
    THEN UnchangedLinesRule(rules["unchanged_lines"])
    ELSE NoRule

(***************************************************************************)
(* parser/datetime.py: the datetime values.  A datetime is the record of   *)
(* its fields, a format is the sequence of its directives ("%Y", "%m",     *)
(* "%d", "%H", "%I", "%M", "%S", "%p") and literal characters.             *)
(***************************************************************************)
\* calendar of datetime: leap years and the days of a month
IsLeap(y) == (y % 4 = 0 /\ y % 100 # 0) \/ y % 400 = 0

DaysIn(y, m) ==
    IF m = 2 THEN (IF IsLeap(y) THEN 29 ELSE 28)
    ELSE IF m \in {4, 6, 9, 11} THEN 30 ELSE 31

\* the day number of a date of the Gregorian calendar, counted in days from
\* 0000-03-01 (years run from March, so that a leap day ends its year)
Ordinal(v) ==
    LET y == IF v.month <= 2 THEN v.year - 1 ELSE v.year
        mp == IF v.month > 2 THEN v.month - 3 ELSE v.month + 9
    IN  y * 365 + (y \div 4) - (y \div 100) + (y \div 400)
          + ((153 * mp + 2) \div 5) + v.day - 1

\* the date of a day number
FromOrdinal(z) ==
    LET era == z \div 146097
        doe == z % 146097
        yoe == (doe - (doe \div 1460) + (doe \div 36524) - (doe \div 146096))
                 \div 365
        doy == doe - (365 * yoe + (yoe \div 4) - (yoe \div 100))
        mp == (5 * doy + 2) \div 153
        m == IF mp < 10 THEN mp + 3 ELSE mp - 9
    IN  [year |-> yoe + era * 400 + (IF m <= 2 THEN 1 ELSE 0), month |-> m,
         day |-> doy - ((153 * mp + 2) \div 5) + 1]

\* candidate - timedelta(days=n): the time of day is kept
MinusDays(c, n) ==
    LET date == FromOrdinal(Ordinal(c) - n)
    IN  [c EXCEPT !.year = date.year, !.month = date.month, !.day = date.day]

\* the order of datetime values: by date, then time of day, then microsecond
DayNo(v) == (v.year * 12 + v.month) * 31 + v.day
SecNo(v) == (v.hour * 60 + v.minute) * 60 + v.second

Before(a, b) ==
    \/ DayNo(a) < DayNo(b)
    \/ DayNo(a) = DayNo(b) /\ SecNo(a) < SecNo(b)
    \/ DayNo(a) = DayNo(b) /\ SecNo(a) = SecNo(b)
         /\ a.microsecond < b.microsecond

\* the decimal text of n, zero-filled to width w
Pad(n, w) ==
    LET s == DecStr(n)
    IN  IF Len(s) >= w THEN s ELSE [i \in 1..(w - Len(s)) |-> "0"] \o s

NumericDirectives == {"%Y", "%m", "%d", "%H", "%I", "%M", "%S"}

\* datetime.strftime of one directive or literal character
RenderItem(v, item) ==
    CASE item = "%Y" -> Pad(v.year, 4)
      [] item = "%m" -> Pad(v.month, 2)
      [] item = "%d" -> Pad(v.day, 2)
      [] item = "%H" -> Pad(v.hour, 2)
      [] item = "%I" -> Pad(((v.hour + 11) % 12) + 1, 2)
      [] item = "%M" -> Pad(v.minute, 2)
      [] item = "%S" -> Pad(v.second, 2)
      [] item = "%p" -> IF v.hour < 12 THEN <<"A", "M">> ELSE <<"P", "M">>
      [] OTHER -> <<item>>

\* datetime.strftime(fmt)
strftime(v, fmt) == Join([i \in 1..Len(fmt) |-> RenderItem(v, fmt[i])])

\* the values datetime.strptime accepts for a numeric directive
DirectiveRange(item) ==
    CASE item = "%Y" -> 1..9999
      [] item = "%m" -> 1..12
      [] item = "%d" -> 1..31
      [] item = "%H" -> 0..23
      [] item = "%I" -> 1..12
      [] item = "%M" -> 0..59
      [] item = "%S" -> 0..61

\* the fields datetime.strptime starts from: 1900-01-01 00:00:00, no %I and
\* no %p read ("%p" is 1 for AM and 2 for PM)
NoFields ==
    [i \in NumericDirectives \cup {"%p"} |->
        IF i = "%Y" THEN 1900 ELSE IF i \in {"%m", "%d"} THEN 1 ELSE 0]

\* datetime.strptime, field by field: a numeric directive reads the digits up to
\* the next literal (four for %Y, one or two for the others), %p reads AM or
\* PM in either case, a literal reads itself
RECURSIVE strptime_fields(_, _, _)
strptime_fields(text, fmt, found) ==
    IF fmt = <<>> THEN [ok |-> text = <<>>, found |-> found]
    ELSE LET item == Head(fmt)
             n == RunLen(text, DigitChars)
         IN  IF item \in NumericDirectives
             THEN IF /\ (IF item = "%Y" THEN n = 4 ELSE n \in 1..2)
                     /\ DecVal(TakeFirst(text, n)) \in DirectiveRange(item)
                  THEN strptime_fields(DropFirst(text, n), Tail(fmt),
                           [found EXCEPT ![item] = DecVal(TakeFirst(text, n))])
                  ELSE [ok |-> FALSE, found |-> found]
             ELSE IF item = "%p"
             THEN IF /\ Len(text) >= 2
                     /\ text[1] \in {"A", "a", "P", "p"}
                     /\ text[2] \in {"M", "m"}
                  THEN strptime_fields(DropFirst(text, 2), Tail(fmt),
                           [found EXCEPT !["%p"] =
                               IF text[1] \in {"A", "a"} THEN 1 ELSE 2])
                  ELSE [ok |-> FALSE, found |-> found]
             ELSE IF text # <<>> /\ text[1] = item
                  THEN strptime_fields(DropFirst(text, 1), Tail(fmt), found)
                  ELSE [ok |-> FALSE, found |-> found]

\* the hour of the fields read: %H, or %I with AM/PM (12 AM is 0, 12 PM is 12)
HourOf(found) ==
    IF found["%I"] = 0 THEN found["%H"]
    ELSE IF found["%p"] = 2
    THEN (IF found["%I"] = 12 THEN 12 ELSE found["%I"] + 12)
    ELSE (IF found["%I"] = 12 THEN 0 ELSE found["%I"])

\* datetime.strptime(text, fmt): ok is FALSE where it raises ValueError
strptime(text, fmt) ==
    LET r == strptime_fields(text, fmt, NoFields)
        f == r.found
    IN  [ok |-> r.ok /\ f["%d"] <= DaysIn(f["%Y"], f["%m"]) /\ f["%S"] <= 59,
         value |-> [year |-> f["%Y"], month |-> f["%m"], day |-> f["%d"],
                    hour |-> HourOf(f), minute |-> f["%M"],
                    second |-> f["%S"], microsecond |-> 0]]

(***************************************************************************)
(* parser/datetime.py: the random datetime of BaseDTParser.                *)
(***************************************************************************)
\* random.randint(a, b): the NumDraws smallest outcomes
randint(a, b) == {v \in a..b : v < a + NumDraws}

random_day(base) == IF base < 10 THEN randint(1, 9) ELSE randint(10, 28)

random_month(base) == IF base < 10 THEN randint(1, 9) ELSE randint(10, 12)

random_hour(base) ==
    IF base < 10 THEN randint(0, 9)
    ELSE IF base < 13 THEN randint(10, 12) ELSE randint(10, 23)

random_minute_or_second(base) ==
    IF base < 10 THEN randint(1, 9) ELSE randint(1, 59)

\* len(str(n)) of a month or a day
Width(n) == Len(DecStr(n))

\* the steps of the backward walk of _generate_random_datetime
WalkSteps == 360

\* the backward walk, one day at a time: the candidate of the first step at
\* which the digit widths of month and day are those of the base, or the
\* candidate of the last step
WalkBack(candidate, base, steps) ==
    LET hits == {k \in 1..steps :
                    LET c == FromOrdinal(Ordinal(candidate) - k)
                    IN  /\ Width(c.month) = Width(base.month)
                        /\ Width(c.day) = Width(base.day)}
    IN  MinusDays(candidate, IF hits = {} THEN steps ELSE SetMin(hits))

\* the initial randomized candidates
FirstCandidates(base) ==
    {[year |-> base.year, month |-> mo, day |-> d, hour |-> h, minute |-> mi,
      second |-> s, microsecond |-> us] :
        mo \in random_month(base.month), d \in random_day(base.day),
        h \in random_hour(base.hour),
        mi \in random_minute_or_second(base.minute),
        s \in random_minute_or_second(base.second),
        us \in randint(0, 999999)}

\* _generate_random_datetime: a first candidate that is earlier than the base,
\* or else the candidate moved to the month and day of the base with a new
\* time of day (it keeps its year, the year of the base, and its microsecond),
\* taken back 1 to 20 days and then walked backward
generate_random_datetime(base) ==
    LET first == FirstCandidates(base)
        later == {c \in first : ~Before(c, base)}
    IN  {c \in first : Before(c, base)}
        \cup {WalkBack(MinusDays([year |-> base.year, month |-> base.month,
                                   day |-> base.day, hour |-> h,
                                   minute |-> mi, second |-> s,
                                   microsecond |-> us], n),
                       base, WalkSteps) :
                us \in {c.microsecond : c \in later},
                h \in random_hour(base.hour),
                mi \in random_minute_or_second(base.minute),
                s \in random_minute_or_second(base.second),
                n \in randint(1, 20)}

(***************************************************************************)
(* parser/datetime.py: the width matching of BaseDTParser.rewritten.       *)
(***************************************************************************)
\* [bcdeghilnprtuvy]\s+\d+ : a letter, whitespace and digits somewhere in text
HasPrefixedNumber(text) ==
    \E i \in 1..Len(text) :
        /\ text[i] \in {"b", "c", "d", "e", "g", "h", "i", "l", "n", "p", "r",
                        "t", "u", "v", "y"}
        /\ RunLen(DropFirst(text, i), WhitespaceChars) > 0
        /\ LET rest == DropFirst(text, i)
           IN  RunLen(DropFirst(rest, RunLen(rest, WhitespaceChars)),
                      DigitChars) > 0

\* _match_prefixed_number_widths, where the raw text holds no letter-prefixed
\* number: the raw text is then one part, which does not match the pattern,
\* and the formatted text comes back as it is, either because the part counts
\* differ or because no part is reformatted
match_prefixed_number_widths(raw, formatted_text) == formatted_text

DateSepChars == {"/", ".", "-"}
GroupSepChars == {"/", ".", ":", "-"}

\* t[from..] starts with n digits followed by a character of S
DigitsThenSep(t, n, S) ==
    /\ Len(t) >= n + 1
    /\ AllIn(TakeFirst(t, n), DigitChars)
    /\ t[n + 1] \in S

\* re.match of the date/time component pattern at the start of a segment:
\* (\d{1,2}[/.-]){2}\d{2,4}, \d{2,4}([/.-]\d{1,2}){2} or \d{1,2}:\d{1,2}
IsDateTimeComponent(seg) ==
    \/ \E a \in 1..2, b \in 1..2 :
           /\ DigitsThenSep(seg, a, DateSepChars)
           /\ DigitsThenSep(DropFirst(seg, a + 1), b, DateSepChars)
           /\ RunLen(DropFirst(seg, a + b + 2), DigitChars) >= 2
    \/ \E a \in 2..4, b \in 1..2 :
           /\ DigitsThenSep(seg, a, DateSepChars)
           /\ DigitsThenSep(DropFirst(seg, a + 1), b, DateSepChars)
           /\ RunLen(DropFirst(seg, a + b + 2), DigitChars) >= 1
    \/ \E a \in 1..2 :
           /\ DigitsThenSep(seg, a, {":"})
           /\ RunLen(DropFirst(seg, a + 1), DigitChars) >= 1

\* one group of a component brought to the width of the raw group: a longer
\* formatted number loses its leading zeros, then its last digits
MatchGroup(raw_item, fmt_item) ==
    IF /\ AllIn(raw_item, DigitChars) /\ AllIn(fmt_item, DigitChars)
       /\ Len(raw_item) < Len(fmt_item)
    THEN LET trimmed == DecStr(DecVal(fmt_item))
         IN  IF Len(trimmed) <= Len(raw_item) THEN trimmed
             ELSE TakeFirst(trimmed, Len(raw_item))
    ELSE fmt_item

\* a component segment with every group matched (the texts of the model hold
\* no two adjacent separators and as many groups in both segments)
MatchGroups(raw_seg, fmt_seg) ==
    LET raw_groups == split_by_matches(raw_seg, GroupSepChars)
        fmt_groups == split_by_matches(fmt_seg, GroupSepChars)
    IN  Join([g \in 1..Len(fmt_groups) |->
                 IF g <= Len(raw_groups)
                 THEN MatchGroup(raw_groups[g], fmt_groups[g])
                 ELSE fmt_groups[g]])

\* the segment at idx is a component in both texts and its matched form has
\* the length of the raw segment: the matched form then replaces the segment
\* and the raw whitespace replaces the part before it
Fits(raw_parts, fmt_parts, idx) ==
    /\ idx \in 1..Len(raw_parts)
    /\ IsDateTimeComponent(raw_parts[idx])
    /\ IsDateTimeComponent(fmt_parts[idx])
    /\ Len(MatchGroups(raw_parts[idx], fmt_parts[idx])) = Len(raw_parts[idx])

\* _match_datetime_component_widths
match_datetime_component_widths(raw, formatted_text) ==
    LET raw_parts == split_by_matches(raw, WhitespaceChars)
        fmt_parts == split_by_matches(formatted_text, WhitespaceChars)
    IN  IF Len(raw_parts) # Len(fmt_parts) THEN formatted_text
        ELSE Join([idx \in 1..Len(fmt_parts) |->
                 IF Fits(raw_parts, fmt_parts, idx + 1)
                 THEN raw_parts[idx]
                 ELSE IF Fits(raw_parts, fmt_parts, idx)
                 THEN MatchGroups(raw_parts[idx], fmt_parts[idx])
                 ELSE fmt_parts[idx]])

(***************************************************************************)
(* parser/datetime.py: the parsers.  A text of the model is parsed by the  *)
(* first format of its family that strptime accepts; the formats of the    *)
(* model hold no "GMT", no fraction, no %Z and no "T", so that the output  *)
(* format of try_parse_with is the format itself.                          *)
(***************************************************************************)
\* the formats of the model, in the order the parsers try them:
\* UserTimeParser (12-hour before 24-hour), UserDTParser, UserDateParser
TimeFormats ==
    <<  <<"%I", ":", "%M", " ", "%p">>,
        <<"%H", ":", "%M", ":", "%S">>,
        <<"%H", ":", "%M">>  >>

DateTimeFormats ==
    <<  <<"%m", "/", "%d", "/", "%Y", " ", "%I", ":", "%M", " ", "%p">>,
        <<"%Y", "-", "%m", "-", "%d", " ", "%H", ":", "%M", ":", "%S">>  >>

DateFormats ==
    <<  <<"%m", "/", "%d", "/", "%Y">>,
        <<"%Y", "-", "%m", "-", "%d">>  >>

Families ==
    [time |-> TimeFormats, datetime |-> DateTimeFormats, date |-> DateFormats]

\* try_parse_with(fmt): the parser after one format
try_parse_with(raw, fmt) ==
    LET r == strptime(raw, fmt)
    IN  IF r.ok
        THEN [parsed |-> TRUE, raw |-> raw, is_parsed |-> TRUE,
              output_format |-> fmt, dt |-> r.value,
              read |-> FALSE, rewritten |-> <<>>]
        ELSE [parsed |-> TRUE, raw |-> raw, is_parsed |-> FALSE,
              output_format |-> <<>>, dt |-> r.value,
              read |-> FALSE, rewritten |-> <<>>]

\* parse_with_any(*fmts): the first format that parses the raw text
RECURSIVE parse_with_any(_, _)
parse_with_any(raw, fmts) ==
    IF Len(fmts) = 1 \/ try_parse_with(raw, Head(fmts)).is_parsed
    THEN try_parse_with(raw, Head(fmts))
    ELSE parse_with_any(raw, Tail(fmts))

\* BaseDTParser.rewritten: the texts it can return
rewritten(parser) ==
    IF ~parser.is_parsed THEN {parser.raw}
    ELSE {match_datetime_component_widths(parser.raw,
              match_prefixed_number_widths(parser.raw,
                  strftime(randomized, parser.output_format))) :
            randomized \in generate_random_datetime(parser.dt)}

(***************************************************************************)
(* parser/url.py: the recognition of URLParser, on texts that hold no      *)
(* scheme, user, port, path, query or fragment: a host name between        *)
(* punctuation.                                                            *)
(***************************************************************************)
\* checker.COMMON_TLDS
COMMON_TLDS ==
    { <<"c", "o", "m">>, <<"o", "r", "g">>, <<"n", "e", "t">>,
      <<"i", "n", "f", "o">>, <<"b", "i", "z">>, <<"x", "y", "z">>,
      <<"o", "n", "l", "i", "n", "e">>, <<"s", "i", "t", "e">>,
      <<"a", "p", "p">>, <<"d", "e", "v">>, <<"i", "o">>, <<"a", "i">>,
      <<"u", "s">>, <<"u", "k">>, <<"c", "a">>, <<"a", "u">>, <<"d", "e">>,
      <<"f", "r">>, <<"j", "p">>, <<"c", "n">>, <<"i", "n">>, <<"n", "l">>,
      <<"b", "r">>, <<"e", "d", "u">>, <<"g", "o", "v">>, <<"m", "i", "l">>,
      <<"i", "n", "t">> }

\* checker.is_valid_hostname: labels of a letter then letters, digits or
\* "-", two labels or more
is_valid_hostname(host) ==
    LET labels == SplitOn(host, ".")
    IN  /\ Len(labels) >= 2
        /\ \A i \in 1..Len(labels) :
             /\ Len(labels[i]) >= 2
             /\ labels[i][1] \in LetterChars
             /\ AllIn(labels[i], LetterChars \cup DigitChars \cup {"-"})

\* checker.has_common_tld
has_common_tld(host) ==
    /\ is_valid_hostname(host)
    /\ LET labels == SplitOn(host, ".")
           tld == labels[Len(labels)]
       IN  [i \in 1..Len(tld) |-> LowerOf(tld[i])] \in COMMON_TLDS

\* URLParser._parse: re.fullmatch of punctuation, host, punctuation, then
\* the check of the top-level domain
URLParser(text) ==
    [matched |->
        \E p \in 0..Len(text) : \E s \in 0..(Len(text) - p) :
            /\ AllIn(TakeFirst(text, p), PunctChars)
            /\ AllIn(DropFirst(text, Len(text) - s), PunctChars)
            /\ has_common_tld(SubSeq(text, p + 1, Len(text) - s))]

(***************************************************************************)
(* The MACParser and the IPv6Parser that core/token.py imports from        *)
(* rewordapp.parser.net.  That module is not in the source tree: the       *)
(* recognition is modelled from the specification (section 4.5) on plain   *)
(* addresses, six groups of two hexadecimal digits for a MAC address and   *)
(* groups of one to four hexadecimal digits for an IPv6 address.           *)
(***************************************************************************)
\* six groups of two hexadecimal digits with ":" or "-" between them
MACParser(text) ==
    [matched |->
        \E sep \in {":", "-"} :
            LET groups == SplitOn(text, sep)
            IN  /\ Len(groups) = 6
                /\ \A i \in 1..6 :
                     Len(groups[i]) = 2 /\ AllIn(groups[i], HexChars)]

\* eight groups of one to four hexadecimal digits with ":" between them, or
\* fewer groups around one "::"
IPv6Parser(text) ==
    LET groups == SplitOn(text, ":")
        empty == {i \in 1..Len(groups) : groups[i] = <<>>}
    IN  [matched |->
            /\ \A i \in (1..Len(groups)) \ empty :
                 Len(groups[i]) \in 1..4 /\ AllIn(groups[i], HexChars)
            /\ \/ Len(groups) = 8 /\ empty = {}
               \/ /\ Len(groups) \in 3..8
                  /\ Cardinality(empty) = 1
                  /\ empty \cap {1, Len(groups)} = {}]

(***************************************************************************)
(* core/token.py: the tokens.  The lines of the model hold no URL, MAC or  *)
(* IPv6 address; the tokens of these classes are built from single texts   *)
(* and are not rewritten in the model.                                     *)
(***************************************************************************)
\* BaseParser._build for DateTimeParser, then for DateParser when the first
\* does not parse (DateTimeToken._detect): the punctuation around the text,
\* and the parser of what is between, which starts and ends with a letter
\* or a digit and holds three characters or more
DateTimeNode(text) ==
    LET p == RunLen(text, PunctChars)
        s == Len(text) - Len(rstrip(text, PunctChars))
        core == SubSeq(text, p + 1, Len(text) - s)
        fits == /\ Len(core) >= 3
                /\ core[1] \in LetterChars \cup DigitChars
                /\ core[Len(core)] \in LetterChars \cup DigitChars
        as_datetime == parse_with_any(core, DateTimeFormats)
        as_date == parse_with_any(core, DateFormats)
    IN  [matched |-> fits /\ (as_datetime.is_parsed \/ as_date.is_parsed),
         prefix |-> TakeFirst(text, p),
         suffix |-> DropFirst(text, Len(text) - s),
         node |-> IF fits /\ as_datetime.is_parsed THEN as_datetime
                  ELSE as_date]

\* bool(build_datetime_token(text))
build_datetime_token(text) == text # <<>> /\ DateTimeNode(text).matched

\* RewriteRules.token_to_rule
token_to_rule ==
    [FilePermissionToken |-> "rewrite_file_permission",
     IPv4Token |-> "rewrite_ipv4",
     IPv6Token |-> "rewrite_ipv6",
     MACToken |-> "rewrite_mac",
     URLToken |-> "rewrite_url",
     NumberToken |-> "rewrite_number",
     WordToken |-> "rewrite_word"]

\* XToken._detect: whether the parser of the token class parses the text
Recognizes(class_name, text) ==
    CASE class_name = "FilePermissionToken" -> FilePermissionParser(text).matched
      [] class_name = "URLToken" -> URLParser(text).matched
      [] class_name = "MACToken" -> MACParser(text).matched
      [] class_name = "IPv6Token" -> IPv6Parser(text).matched
      [] class_name = "IPv4Token" -> IPv4Parser(text).matched
      [] class_name = "NumberToken" -> NumberParser(text).matched
      [] class_name = "WordToken" -> WordParser(text).matched
      [] class_name = "WhitespaceToken" ->
             text # <<>> /\ AllIn(text, WhitespaceChars)
      [] OTHER -> TRUE

\* build_token with WordToken tried before NumberToken
build_token_word_first(text) ==
    IF text = <<>> THEN "FallbackToken"
    ELSE IF FilePermissionParser(text).matched THEN "FilePermissionToken"
    ELSE IF URLParser(text).matched THEN "URLToken"
    ELSE IF MACParser(text).matched THEN "MACToken"
    ELSE IF IPv6Parser(text).matched THEN "IPv6Token"
    ELSE IF IPv4Parser(text).matched THEN "IPv4Token"
    ELSE IF WordParser(text).matched THEN "WordToken"
    ELSE IF NumberParser(text).matched THEN "NumberToken"
    ELSE IF AllIn(text, WhitespaceChars) THEN "WhitespaceToken"
    ELSE "FallbackToken"

\* build_token: the class of the first token type that matches the text
build_token(text) ==
    IF text = <<>> THEN "FallbackToken"
    ELSE IF FilePermissionParser(text).matched THEN "FilePermissionToken"
    ELSE IF URLParser(text).matched THEN "URLToken"
    ELSE IF MACParser(text).matched THEN "MACToken"
    ELSE IF IPv6Parser(text).matched THEN "IPv6Token"
    ELSE IF IPv4Parser(text).matched THEN "IPv4Token"
    ELSE IF NumberParser(text).matched THEN "NumberToken"
    ELSE IF WordParser(text).matched THEN "WordToken"
    ELSE IF AllIn(text, WhitespaceChars) THEN "WhitespaceToken"
    ELSE "FallbackToken"

\* parsed_node.generate_new().raw: the possible texts
generate_new(M, class_name, text) ==
    IF class_name = "FilePermissionToken"
    THEN {new_file_permission(M, FilePermissionParser(text).file_permission)}
    ELSE IF class_name = "IPv4Token"
    THEN {IPv4ParserGenerateNew(M, IPv4Parser(text).octets)}
    ELSE IF class_name = "NumberToken"
    THEN LET node == NumberParser(text)
         IN  {node.prefix \o n \o node.suffix : n \in new_number(M, node.number)}
    ELSE LET node == WordParser(text)
         IN  {node.prefix \o w \o node.suffix : w \in new_word(M, node.word)}

\* rules.has_rule_for(token)
has_rule_for(rules, class_name) == token_to_rule[class_name] \in DOMAIN rules

\* DateTimeToken.rewritten: the possible texts.  The text is rewritten when
\* the rewrite_datetime rule carries the flag yes or true
DateTimeTokenRewritten(text, rules) ==
    LET rule == get_datetime_token_rule(rules)
        parsed == DateTimeNode(text)
    IN  IF rule.is_parsed /\ rule.is_rewrite
        THEN {parsed.prefix \o new \o parsed.suffix :
                new \in rewritten(parsed.node)}
        ELSE {text}

\* BaseToken.rewritten with every entity token regenerated, whatever its
\* rule
TokenRewritten_always(M, class_name, text, rules) ==
    IF class_name \in {"WhitespaceToken", "FallbackToken"} THEN {text}
    ELSE IF class_name = "DateTimeToken"
    THEN DateTimeTokenRewritten(text, rules)
    ELSE generate_new(M, class_name, text)

\* BaseToken.rewritten: the possible texts.  The parsed node of a whitespace
\* or fallback token is its text; an entity token is regenerated unless its
\* rule is the boolean False
TokenRewritten(M, class_name, text, rules) ==
    IF class_name \in {"WhitespaceToken", "FallbackToken"} THEN {text}
    ELSE IF class_name = "DateTimeToken"
    THEN DateTimeTokenRewritten(text, rules)
    ELSE IF has_rule_for(rules, class_name)
            /\ rules[token_to_rule[class_name]] = FALSE
    THEN {text}
    ELSE generate_new(M, class_name, text)

\* rules.update_rule_for(token), for a token without a rule
update_rule_for(rules, class_name) ==
    Update(rules, [n \in {token_to_rule[class_name]} |-> TRUE])

(***************************************************************************)
(* line.py: a line of the document.                                        *)
(***************************************************************************)
\* Line.__init__
Line(text) ==
    LET content == rstrip(text, {"\r", "\n"})
    IN  [content |-> content,
         newline |-> DropFirst(text, Len(content)),
         rewritten |-> <<>>,
         unchanged |-> FALSE]

\* Line.is_nonempty
is_nonempty(content) == ~AllIn(content, WhitespaceChars)

\* utils.extract_non_whitespace(text)
extract_non_whitespace(text) ==
    SelectSeq(split_by_matches(text, WhitespaceChars),
              LAMBDA part : part[1] \notin WhitespaceChars)

\* utils.extract_segments(line, parts): the text before, of and after the
\* first place where the parts follow one another with whitespace between
line_segments(line, parts) ==
    LET pieces == Join([i \in 1..Len(parts) |->
                     (IF i = 1 THEN <<>> ELSE <<[kind |-> "spaces", ch |-> " "]>>)
                     \o [j \in 1..Len(parts[i]) |->
                           [kind |-> "char", ch |-> parts[i][j]]]])
        found == {pos \in 1..(Len(line) + 1) :
                    MatchEnds(pieces, line, pos, FALSE) # {}}
    IN  IF found = {} THEN <<line, <<>>, <<>>>>
        ELSE LET pos == SetMin(found)
                 after == SetMin(MatchEnds(pieces, line, pos, FALSE))
             IN  <<TakeFirst(line, pos - 1),
                   SubSeq(line, pos, after - 1),
                   DropFirst(line, after - 1)>>

\* The tokens of a text: one per whitespace run and per run of other
\* characters (the loops over split_by_matches in Line.tokenize)
chunk_tokens(text) ==
    IF text = <<>> THEN <<>>
    ELSE LET chunks == split_by_matches(text, WhitespaceChars)
         IN  [i \in 1..Len(chunks) |->
                [class_name |-> build_token(chunks[i]), raw |-> chunks[i]]]

\* the tokens of a line: those of the text on the left of the datetime text,
\* the datetime token and those of the text on its right when the text found
\* for the span was recognized, and the tokens of the content otherwise
line_tokens(content, found, recognized) ==
    LET pieces == IF recognized THEN found ELSE <<content>>
    IN  Join([k \in 1..Len(pieces) |->
                IF recognized /\ k = 2
                THEN <<[class_name |-> "DateTimeToken", raw |-> pieces[k]]>>
                ELSE chunk_tokens(pieces[k])])

\* Line.tokenize under the rewrite_datetime rule of the rules
tokenize_under(dt_rule, content, found) ==
    IF dt_rule.error # ""
    THEN [error |-> dt_rule.error, tokens |-> <<>>]
    ELSE [error |-> "",
          tokens |-> line_tokens(content, found,
                         dt_rule.is_parsed /\ build_datetime_token(found[2]))]

\* Line.tokenize: the exception it raises ("" for none) and the tokens.  The
\* rewrite_datetime rule is built for every line that has data; when the
\* text of its span is a datetime, the tokens are those of the text on its
\* left, the datetime token and those of the text on its right
tokenize_with(dt_rule, content) ==
    tokenize_under(dt_rule, content,
        line_segments(content,
            extract_segments(dt_rule, extract_non_whitespace(content))))

tokenize(rules, content) ==
    IF ~is_nonempty(content) THEN [error |-> "", tokens |-> <<>>]
    ELSE tokenize_with(get_datetime_token_rule(rules), content)

\* the outcomes of Line.rewritten for a line that was tokenized: the text,
\* the tokens with their rewritten texts and the value cached in the line
rewritten_tokens(M, line, rules, tokens, error) ==
    IF tokens = <<>>
    THEN {[text |-> <<>>, tokens |-> <<>>, cache |-> line.rewritten,
           error |-> error]}
    ELSE { [text |-> Join(c),
            tokens |-> [i \in 1..Len(tokens) |->
                          [class_name |-> tokens[i].class_name,
                           raw |-> tokens[i].raw,
                           rewritten |-> c[i]]],
            cache |-> Join(c),
            error |-> ""] :
           c \in Choices([i \in 1..Len(tokens) |->
                   TokenRewritten(M, tokens[i].class_name,
                                  tokens[i].raw, rules)]) }

\* the outcomes of Line.rewritten for a line that is tokenized
rewritten_tokenized(M, line, rules, tokenized) ==
    rewritten_tokens(M, line, rules, tokenized.tokens, tokenized.error)

\* Line.rewritten with no cache: every reading tokenizes the line again
LineRewritten_uncached(M, line, rules) ==
    IF line.unchanged
    THEN {[text |-> line.content, tokens |-> <<>>, cache |-> line.rewritten,
           error |-> ""]}
    ELSE rewritten_tokenized(M, line, rules, tokenize(rules, line.content))

\* Line.rewritten: the possible outcomes, each with the text returned, the
\* texts of the tokens joined to make it and the value cached in the line
LineRewritten(M, line, rules) ==
    IF line.unchanged
    THEN {[text |-> line.content, tokens |-> <<>>, cache |-> line.rewritten,
           error |-> ""]}
    ELSE IF line.rewritten # <<>>
    THEN {[text |-> line.rewritten, tokens |-> <<>>, cache |-> line.rewritten,
           error |-> ""]}
    ELSE rewritten_tokenized(M, line, rules, tokenize(rules, line.content))

\* the rules after the tokens of a line, with every entity token registering
\* its rule as True, whether it had one or not
RulesAfter_every_token(rules, tokens) ==
    LET names == {token_to_rule[tokens[i].class_name] :
                    i \in {j \in 1..Len(tokens) :
                             tokens[j].class_name \in DOMAIN token_to_rule}}
    IN  Update(rules, [n \in names |-> TRUE])

\* the rules after the tokens of a line were rewritten: every entity token
\* without a rule registers its rule as True
RulesAfter(rules, tokens) ==
    LET names == {token_to_rule[tokens[i].class_name] :
                    i \in {j \in 1..Len(tokens) :
                             tokens[j].class_name \in DOMAIN token_to_rule}}
    IN  Update(rules, [n \in names \ DOMAIN rules |-> TRUE])

(***************************************************************************)
(* core.py: RewordBuilder.                                                 *)
(***************************************************************************)
\* the loop of RewordBuilder.rewritten over the lines, in order: the possible
\* outcomes, each with the lines (their caches), the parts appended, the
\* rules afterwards and the exception that ended the loop ("" for none)
RECURSIVE ReadLines(_, _, _)
ReadLines(M, lines, rules) ==
    IF lines = <<>>
    THEN {[lines |-> <<>>, parts |-> <<>>, rules |-> rules, error |-> ""]}
    ELSE UNION {
           IF r.error # ""
           THEN {[lines |-> lines, parts |-> <<>>, rules |-> rules,
                  error |-> r.error]}
           ELSE
           { [lines |-> <<[Head(lines) EXCEPT !.rewritten = r.cache]>> \o rest.lines,
              parts |-> <<[rewritten |-> r.text,
                           newline |-> Head(lines).newline,
                           tokens |-> r.tokens]>> \o rest.parts,
              rules |-> rest.rules,
              error |-> rest.error] :
             rest \in ReadLines(M, Tail(lines), RulesAfter(rules, r.tokens)) } :
           r \in LineRewritten(M, Head(lines), rules) }

\* the raw lines of the documents of the model
LineTexts ==
    { <<"Y", "b", " ", "4", "2", ".", "\n">>,
      <<"0", "1", "\n">>,
      <<" ", "\t", "\n">>,
      <<"-", "r", "w", "x", "r", "-", "x", "r", "-", "-", " ",
        "1", "0", ".", "1", ".", "1", ".", "7", "\r", "\n">>,
      <<"-", "-", " ", "0", "7", " ", "1", ".", "5">> }

\* the texts given to RewordBuilder: up to MaxLines lines, of which only the
\* last may lack a terminator
Documents ==
    { Join(d) : d \in
        { d \in UNION {[1..n -> LineTexts] : n \in 0..MaxLines} :
            \A i \in 1..(Len(d) - 1) : d[i][Len(d[i])] = "\n" } }

\* the rules given to RewordBuilder: none (the default rule),
\* rewrite_on_each_generate as false, unchanged_lines as an integer or as
\* a string, or both rules; a rule value carries its
\* Python type and, under the field of that type, its value
RuleSets ==
    {[rewrite_on_each_generate |-> b] : b \in BOOLEAN}
    \cup {[rewrite_on_each_generate |-> TRUE, unchanged_lines |-> IntVal(1)]}
    \cup {[unchanged_lines |-> IntVal(k)] : k \in 1..MaxLines}
    \cup {[unchanged_lines |-> StrVal(DecStr(k))] : k \in 1..MaxLines}

\* load_rules: the exception for a document whose root is not a mapping
load_rules(data) == IF data.type = "dict" THEN "" ELSE "InvalidRulesFormat"

\* a rule document whose root is the mapping rules
DictRoot(rules) == [type |-> "dict", rules |-> rules]

\* the tables exist once rewordapp.rewrite.mapping is imported
InitDoc ==
    /\ parsers = <<>>
    /\ withSources = TRUE
    /\ Mapping \in Tables
    /\ rw = NoCall
    /\ builder = NoBuilder
    /\ dt = NoParser

\* RewordBuilder(text=text, rule_text=...), for the rule document data: no
\* builder is made when load_rules raises.  rule_text keeps the rules as
\* they were given
NewBuilder(text, data) ==
    /\ ~builder.built
    /\ builder' =
         IF load_rules(data) # ""
         THEN [built |-> FALSE, raised |-> load_rules(data)]
         ELSE [built |-> TRUE,
               raised |-> "",
               text |-> text,
               rule_text |-> data.rules,
               rules |-> data.rules,
               lines |-> LET raws == splitlines(text)
                         IN  [i \in 1..Len(raws) |-> Line(raws[i])],
               read |-> FALSE,
               parts |-> <<>>]
    /\ UNCHANGED <<parsers, withSources, Mapping, rw, dt>>

\* RewriteRules.refresh with the tables rebuilt whatever the rules say
refresh_always(rules, M) == Tables

\* RewriteRules.refresh: the tables afterwards, rebuilt by mapping.refresh
\* when rewrite_on_each_generate is given and true
refresh(rules, M) ==
    IF "rewrite_on_each_generate" \in DOMAIN rules
       /\ rules["rewrite_on_each_generate"] = TRUE
    THEN Tables
    ELSE {M}

\* RewordBuilder.rewritten: refresh of the tables when the rules ask for it,
\* marking of the unchanged lines, then every line in order.  An exception
\* of the unchanged_lines rule or of a line ends the reading: nothing is
\* returned, and what was done before it stays done
Rewritten ==
    /\ builder.built
    /\ IF builder.lines = <<>>
       THEN /\ builder' = [builder EXCEPT !.read = TRUE, !.parts = <<>>,
                                          !.raised = ""]
            /\ UNCHANGED Mapping
       ELSE /\ Mapping' \in refresh(builder.rules, Mapping)
            /\ LET unchanged_rule == get_unchanged_lines_rule(builder.rules)
                   lines == IF unchanged_rule.is_parsed
                            THEN apply_unchanged_lines(unchanged_rule,
                                                       builder.lines)
                            ELSE builder.lines
               IN  IF unchanged_rule.error # ""
                   THEN builder' = [builder EXCEPT
                                      !.raised = unchanged_rule.error]
                   ELSE \E r \in ReadLines(Mapping', lines, builder.rules) :
                          builder' =
                            IF r.error # ""
                            THEN [builder EXCEPT !.rules = r.rules,
                                                 !.lines = r.lines,
                                                 !.raised = r.error]
                            ELSE [builder EXCEPT !.rules = r.rules,
                                                 !.lines = r.lines,
                                                 !.read = TRUE,
                                                 !.parts = r.parts,
                                                 !.raised = ""]
    /\ UNCHANGED <<parsers, withSources, rw, dt>>

NextDoc ==
    \/ \E text \in Documents, rules \in RuleSets :
           NewBuilder(text, DictRoot(rules))
    \/ Rewritten

SpecDoc == InitDoc /\ [][NextDoc]_vars

(***************************************************************************)
(* The builder under rule documents: well-formed and malformed values of   *)
(* unchanged_lines and rewrite_datetime, flags of the entity types, and    *)
(* documents whose root is not a mapping.                                  *)
(***************************************************************************)
\* the texts given to RewordBuilder: an empty text, blank lines, and lines
\* of the words begin, mid, end and eof, the last line with or without a
\* terminator
RuleDocuments ==
    { <<>>,
      <<" ", "\n", "\t", "\n">>,
      <<"m", "i", "d", " ", "7", "\n">>,
      <<"b", "e", "g", "i", "n", "\n", "m", "i", "d", " ", "7", "\n",
        "e", "n", "d", "\n">>,
      <<"m", "i", "d", " ", "7", "\n", "b", "e", "g", "i", "n", "\r", "\n",
        "e", "o", "f", "\n", "e", "n", "d", "\n", "m", "i", "d", " ", "7">>,
      <<"e", "n", "d", "\n", "B", "e", "g", "i", "n", "\n",
        "m", "i", "d", " ", "7", "\n", " ", "\n">>,
      <<"b", "e", "g", "i", "n", "\n", "e", "n", "d", "\n",
        "b", "e", "g", "i", "n", "\n", "e", "n", "d", "\n">> }

\* the indices given as bounds of a pair run from 1 to MaxIndex
MaxIndex == 5

\* the words given as bounds of a pair
BoundWords ==
    {<<"b", "e", "g", "i", "n">>, <<"e", "n", "d">>, <<"m", "i", "d">>,
     <<"n", "o", "n", "e">>, <<"n", "u", "l", "l">>, <<"w", "2">>,
     <<"s", "t", "o", "p">>, <<"m", "i", "d", " ", "1">>}

\* the values of unchanged_lines that are pairs: two indices, an index or a
\* word then null, two words
PairValues ==
    {ListVal(<<IntVal(i), IntVal(k)>>) : i, k \in 1..MaxIndex}
    \cup {ListVal(<<IntVal(i), NoneVal>>) : i \in 1..3}
    \cup {ListVal(<<IntVal(i), StrVal(w)>>) :
            i \in 1..2, w \in {<<"n", "o", "n", "e">>, <<"n", "u", "l", "l">>}}
    \cup {ListVal(<<StrVal(x), StrVal(y)>>) : x, y \in BoundWords}
    \cup {ListVal(<<StrVal(<<"b", "e", "g", "i", "n">>), NoneVal>>),
          ListVal(<<ListVal(<<IntVal(1), IntVal(1)>>),
                    ListVal(<<StrVal(<<"e", "o", "f">>), NoneVal>>)>>)}

\* other values of unchanged_lines: indices, strings of items, and values
\* that are none of the forms of a rule
OtherUnchangedValues ==
    {IntVal(1), IntVal(0 - 1),
     StrVal(<<"2", ",", "e", "n", "d">>),
     StrVal(<<"2", ":", "3">>),
     StrVal(<<" ", "n", "o", "n", "e", ":", "3">>),
     ListVal(<<>>),
     ListVal(<<IntVal(1)>>),
     ListVal(<<IntVal(1), IntVal(2), IntVal(3)>>),
     ListVal(<<FloatVal(<<"1", ".", "5">>), IntVal(2)>>),
     ListVal(<<ListVal(<<IntVal(1), IntVal(2)>>), ListVal(<<IntVal(3)>>)>>),
     FloatVal(<<"1", ".", "5">>),
     DictVal(<<"{", "}">>)}

\* values of rewrite_datetime: strings and lists of a flag, a start and a
\* width, and values that are neither
DateTimeValues ==
    {StrVal(<<"y", "e", "s", ",", "1">>),
     StrVal(<<"n", "o", ",", " ", "-", "1", ",", "e", "o", "l">>),
     ListVal(<<BoolVal(TRUE), IntVal(2), IntVal(2)>>),
     StrVal(<<"y", "e", "s">>),
     StrVal(<<"o", "n", ",", "1">>),
     ListVal(<<StrVal(<<"y", "e", "s">>)>>),
     ListVal(<<StrVal(<<"y", "e", "s">>), StrVal(<<"x">>)>>),
     ListVal(<<>>),
     IntVal(5),
     IntVal(0),
     DictVal(<<"{", "}">>)}

\* the rule mappings of the documents
RuleMappings ==
    {[unchanged_lines |-> v] : v \in PairValues \cup OtherUnchangedValues}
    \cup {[rewrite_datetime |-> v] : v \in DateTimeValues}
    \cup {[unchanged_lines |-> ListVal(<<IntVal(1), IntVal(2), IntVal(3)>>),
           rewrite_datetime |-> StrVal(<<"y", "e", "s">>)]}
    \cup {[rewrite_word |-> w] : w \in BOOLEAN}
    \cup {[rewrite_word |-> w, rewrite_number |-> n] : w, n \in BOOLEAN}
    \cup {[rewrite_number |-> FALSE, unchanged_lines |-> IntVal(k)] :
            k \in 1..2}

\* the rule documents: a mapping, or a root that is a list, a string or
\* nothing
RuleRoots ==
    {DictRoot(rules) : rules \in RuleMappings}
    \cup {[type |-> t] : t \in {"list", "str", "NoneType"}}

NextRules ==
    \/ \E text \in RuleDocuments, data \in RuleRoots : NewBuilder(text, data)
    \/ Rewritten

SpecRules == InitDoc /\ [][NextRules]_vars

(***************************************************************************)
(* parser/datetime.py: the texts and the parsers of the model.             *)
(***************************************************************************)
\* the raw texts of the model, by family
TimeTexts ==
    { <<"1", "0", ":", "0", "0", ":", "0", "0">>,
      <<"0", "0", ":", "0", "0", ":", "0", "0">>,
      <<"1", ":", "0", "5", ":", "0", "9">>,
      <<"2", "3", ":", "5", "9", ":", "5", "9">>,
      <<"1", "0", ":", "0", "5">>,
      <<"1", ":", "0", "5", " ", "P", "M">> }

DateTimeTexts ==
    { <<"2", "0", "2", "6", "-", "0", "2", "-", "0", "7", " ",
        "1", "0", ":", "0", "5", ":", "0", "9">>,
      <<"2", "0", "2", "6", "-", "0", "1", "-", "0", "1", " ",
        "0", "0", ":", "0", "0", ":", "0", "0">>,
      <<"1", "/", "1", "/", "2", "0", "2", "6", " ",
        "1", ":", "0", "1", " ", "A", "M">>,
      <<"0", "7", "/", "0", "2", "/", "2", "0", "2", "6", " ",
        "1", ":", "0", "5", " ", "P", "M">>,
      <<"1", "2", "/", "3", "1", "/", "2", "0", "2", "6", " ",
        "1", "1", ":", "5", "9", " ", "P", "M">>,
      <<"3", "/", "1", "/", "2", "0", "2", "4", " ",
        "1", "2", ":", "3", "0", " ", "A", "M">> }

DateTexts ==
    { <<"2", "0", "2", "6", "-", "0", "2", "-", "0", "7">>,
      <<"2", "/", "7", "/", "2", "0", "2", "6">>,
      <<"1", "/", "1", "/", "2", "0", "2", "6">>,
      <<"2", "0", "2", "6", "-", "0", "2", "-", "3", "0">> }

DTTexts == [time |-> TimeTexts, datetime |-> DateTimeTexts, date |-> DateTexts]

InitDT ==
    /\ parsers = <<>>
    /\ withSources = FALSE
    /\ Mapping = NoMapping
    /\ rw = NoCall
    /\ builder = NoBuilder
    /\ dt = NoParser

\* TimeParser(text), DateTimeParser(text) or DateParser(text), with no
\* punctuation around the text
NewDTParser(family, text) ==
    /\ ~HasPrefixedNumber(text)
    /\ dt' = parse_with_any(text, Families[family])
    /\ UNCHANGED <<parsers, withSources, Mapping, rw, builder>>

\* the rewritten property of the parser, read once: every reading draws
\* anew, and a new parser of the same text reaches the same rewritten texts
DTRewritten ==
    /\ dt.parsed
    /\ ~dt.read
    /\ \E new \in rewritten(dt) : dt' = [dt EXCEPT !.read = TRUE, !.rewritten = new]
    /\ UNCHANGED <<parsers, withSources, Mapping, rw, builder>>

NextDT ==
    \/ \E family \in DOMAIN Families : \E text \in DTTexts[family] :
           NewDTParser(family, text)
    \/ DTRewritten

SpecDT == InitDT /\ [][NextDT]_vars

(***************************************************************************)
(* parser/datetime.py: _generate_random_datetime under parsed originals of *)
(* every pair of month and day widths, at the ends of months and years,    *)
(* in a leap year and in year 1, the first year that strptime reads.       *)
(***************************************************************************)
WalkYears == {1, 2024}

WalkDays ==
    {<<1, 1>>, <<1, 10>>, <<2, 28>>, <<3, 1>>, <<9, 30>>, <<10, 1>>,
     <<10, 9>>, <<12, 31>>}

WalkTimes == {<<0, 0, 0>>, <<23, 59, 59>>}

\* the values of strptime: no format of the parsers reads a microsecond
WalkBases ==
    {[year |-> y, month |-> md[1], day |-> md[2], hour |-> t[1],
      minute |-> t[2], second |-> t[3], microsecond |-> 0] :
        y \in WalkYears, md \in WalkDays, t \in WalkTimes}

\* datetime - timedelta raises OverflowError when the result lies before
\* 0001-01-01; the walk goes backward only, so that a result before year 1
\* stands for the OverflowError of the subtraction that first went below it
Overflows(c) == c.year < 1

\* one call of _generate_random_datetime(base), the only call of a behaviour
GenerateRandomDatetime(base) ==
    /\ rw = NoCall
    /\ \E new \in generate_random_datetime(base) :
           rw' = [fn |-> "_generate_random_datetime", base |-> base,
                  raised |-> Overflows(new), new |-> new]
    /\ UNCHANGED <<parsers, withSources, Mapping, builder, dt>>

NextWalk == \E base \in WalkBases : GenerateRandomDatetime(base)

SpecWalk == InitDT /\ [][NextWalk]_vars

(***************************************************************************)
(* The builder under every text of a few characters: a letter and the      *)
(* characters at which str.splitlines ends a line, in any order.           *)
(***************************************************************************)
\* the texts hold up to MaxChars characters
MaxChars == 4

\* the characters of the texts
SplitChars == {"a", "\f", "\r", "\n"}

\* the texts given to RewordBuilder
SplitTexts == UNION {[1..n -> SplitChars] : n \in 0..MaxChars}

\* RewordBuilder(text=text): without rule_text, the rules are the default
\* rule
NextSplit ==
    \/ \E text \in SplitTexts :
           NewBuilder(text, DictRoot([rewrite_on_each_generate |-> TRUE]))
    \/ Rewritten

SpecSplit == InitDoc /\ [][NextSplit]_vars

(***************************************************************************)
(* The datetime rule on lines of words: the rule made of a value of        *)
(* rewrite_datetime, then the words it selects of a line, as Line.tokenize *)
(* asks for them.                                                          *)
(***************************************************************************)
\* the lines hold up to MaxWords words
MaxWords == 3

\* the k-th word of the lines
WordAt(k) == <<"w">> \o DecStr(k)

\* the whitespace before the k-th word of a line
GapAt(k) == IF k = 1 THEN <<>> ELSE IF k % 2 = 0 THEN <<" ">> ELSE <<" ", "\t">>

\* the lines of one to MaxWords words
WordLines ==
    {Join([k \in 1..n |-> GapAt(k) \o WordAt(k)]) : n \in 1..MaxWords}

\* the widths of the rule values: a number, or eol
SegmentWidths ==
    {IntVal(w) : w \in 0..MaxWords} \cup {StrVal(<<"e", "o", "l">>)}

\* the start positions of the rule values, up to one beyond the longest line
\* from either end
SegmentStarts == (0 - (MaxWords + 1))..(MaxWords + 1)

\* values of rewrite_datetime: lists [flag, start, width] and [flag, start],
\* and strings "flag, start, width"
SegmentRuleValues ==
    {ListVal(<<BoolVal(TRUE), IntVal(s), w>>) :
        s \in SegmentStarts, w \in SegmentWidths}
    \cup {ListVal(<<StrVal(<<"n", "o">>), IntVal(s)>>) : s \in SegmentStarts}
    \cup {StrVal(<<"y", "e", "s", ",", " ">> \o IntStr(s) \o <<",">>
                 \o PyStr(w)) : s \in {-1, 2}, w \in SegmentWidths}

\* DateTimeTokenRule(rule_value)
NewDateTimeRule(rule_value) ==
    /\ rw = NoCall
    /\ rw' = [fn |-> "DateTimeTokenRule", rule |-> DateTimeTokenRule(rule_value),
              parts |-> <<>>, segments |-> <<>>]
    /\ UNCHANGED <<parsers, withSources, Mapping, builder, dt>>

\* the datetime segments of Line.tokenize for a line with content: the words
\* of the line, then the words the rule selects
ExtractSegments(content) ==
    /\ rw.fn = "DateTimeTokenRule"
    /\ rw.rule.is_parsed
    /\ is_nonempty(content)
    /\ LET parts == extract_non_whitespace(content)
       IN  rw' = [rw EXCEPT !.fn = "extract_segments", !.parts = parts,
                            !.segments = extract_segments(rw.rule, parts)]
    /\ UNCHANGED <<parsers, withSources, Mapping, builder, dt>>

NextSeg ==
    \/ \E rule_value \in SegmentRuleValues : NewDateTimeRule(rule_value)
    \/ \E content \in WordLines : ExtractSegments(content)

SpecSeg == InitDT /\ [][NextSeg]_vars

(***************************************************************************)
(* build_token on single segments: every text of a few characters that a   *)
(* line can hold between two whitespace runs, and longer texts of each     *)
(* token class.                                                            *)
(***************************************************************************)
\* the characters of the short segments
SegmentChars == {"a", "1", ".", "-"}

\* the longer segments
LongSegments ==
    { <<"-", "r", "w", "x", "r", "-", "x", "r", "-", "-">>,
      <<"d", "r", "w", "x", "r", "-", "x", "r", "-", "x", "+">>,
      <<"d", "-", "-", "h", "s", "-">>,
      <<"a", "b", ".", "c", "o", "m">>,
      <<"(", "a", "b", ".", "i", "o", ")", ".">>,
      <<"a", "b", ".", "c", "d">>,
      <<"1", "1", ":", "2", "2", ":", "3", "3", ":", "a", "a", ":",
        "b", "b", ":", "c", "c">>,
      <<"1", "1", "-", "2", "2", "-", "3", "3", "-", "4", "4", "-",
        "5", "5", "-", "6", "6">>,
      <<"f", "e", "8", "0", ":", ":", "1">>,
      <<"1", ":", "2", ":", "3", ":", "4", ":", "5", ":", "6", ":",
        "7", ":", "8">>,
      <<"1", "0", ".", "1", ".", "1", ".", "7">>,
      <<"2", "5", "5", ".", "2", "5", "5", ".", "0", ".", "0">>,
      <<"1", "0", ".", "1", ".", "1", ".", "2", "5", "6">>,
      <<"1", "0", ":", "0", "5", ":", "0", "9">>,
      <<"(", "(", ")", ")", ":">> }

\* the segments given to build_token
SegmentTexts ==
    UNION {[1..n -> SegmentChars] : n \in 1..MaxChars} \cup LongSegments

\* build_token(text), with the rules of a token built without rules
BuildToken(text) ==
    /\ rw = NoCall
    /\ rw' = [fn |-> "build_token",
              text |-> text,
              rules |-> [rewrite_on_each_generate |-> TRUE],
              class_name |-> build_token(text),
              read |-> FALSE,
              rewritten |-> <<>>]
    /\ UNCHANGED <<parsers, withSources, Mapping, builder, dt>>

\* the rewritten property of the token, read once; the texts of URL, MAC
\* and IPv6 tokens are not rewritten in the model
TokenRead ==
    /\ rw.fn = "build_token"
    /\ ~rw.read
    /\ rw.class_name \notin {"URLToken", "MACToken", "IPv6Token"}
    /\ \E new \in TokenRewritten(Mapping, rw.class_name, rw.text, rw.rules) :
           rw' = [rw EXCEPT !.read = TRUE, !.rewritten = new]
    /\ UNCHANGED <<parsers, withSources, Mapping, builder, dt>>

NextTok ==
    \/ \E text \in SegmentTexts : BuildToken(text)
    \/ TokenRead

SpecTok == InitDoc /\ [][NextTok]_vars

(***************************************************************************)
(* The builder under slice items: unchanged_lines as the string "a:b", on   *)
(* documents of one line or more.                                          *)
(***************************************************************************)
\* the documents: one to MaxLines + 1 lines of a word
SliceDocuments ==
    { Join([i \in 1..n |-> <<"a", "b", "\n">>]) : n \in 1..(MaxLines + 1) }

\* the bounds of the slice items: a line counted from the first line or
\* from the last, up to one line beyond the longest document
SliceBounds == ((0 - (MaxLines + 2))..(MaxLines + 2)) \ {0}

\* the value of unchanged_lines for the slice item a:b
SliceValue(a, b) == StrVal(IntStr(a) \o <<":">> \o IntStr(b))

NextSlice ==
    \/ \E text \in SliceDocuments, a, b \in SliceBounds :
           NewBuilder(text, DictRoot([unchanged_lines |-> SliceValue(a, b)]))
    \/ Rewritten

SpecSlice == InitDoc /\ [][NextSlice]_vars

(***************************************************************************)
(* The builder under lines of stamps: lines of a letter, a date and a time *)
(* of day, read under a rewrite_datetime rule that selects some of their   *)
(* words.                                                                  *)
(***************************************************************************)
\* the words of the lines
StampWords ==
    { <<"x">>,
      <<"2", "0", "2", "6", "-", "0", "2", "-", "0", "7">>,
      <<"1", "0", ":", "0", "5", ":", "0", "9">> }

\* the lines: a blank line, a line with whitespace around its words, a line
\* whose first word ends with the text of its second word, and the lines of
\* one to MaxWords words with a space between two words
StampLines ==
    { <<" ", "\t">>,
      <<" ", "2", "0", "2", "6", "-", "0", "2", "-", "0", "7", " ", "\t",
        "x", " ">>,
      <<"x", "2", "0", "2", "6", "-", "0", "2", "-", "0", "7", " ",
        "2", "0", "2", "6", "-", "0", "2", "-", "0", "7">> } \cup
    { Join([k \in 1..Len(ws) |-> (IF k = 1 THEN <<>> ELSE <<" ">>) \o ws[k]]) :
        ws \in UNION {[1..n -> StampWords] : n \in 1..MaxWords} }

\* the values of rewrite_datetime that keep the datetime: [no, start, width],
\* the start counted from the first word or from the last, and the text
\* 'false,2'
StampRuleValues ==
    { ListVal(<<StrVal(<<"n", "o">>), IntVal(s), IntVal(w)>>) :
        s \in {0 - 1} \cup (1..MaxWords), w \in 1..2 }
      \cup { StrVal(<<"f", "a", "l", "s", "e", ",", "2">>) }

\* the lines read under a rule that rewrites the datetime
RestampedLines ==
    { <<" ", "2", "0", "2", "6", "-", "0", "2", "-", "0", "7", " ", "\t",
        "x", " ">>,
      <<"x", " ", "2", "0", "2", "6", "-", "0", "2", "-", "0", "7", " ",
        "1", "0", ":", "0", "5", ":", "0", "9">> }

\* the values of rewrite_datetime that rewrite the datetime
RestampRuleValues ==
    { ListVal(<<StrVal(<<"y", "e", "s">>), IntVal(1), IntVal(1)>>),
      ListVal(<<BoolVal(TRUE), IntVal(2), IntVal(2)>>) }

NextStamp ==
    \/ \E text \in StampLines, value \in StampRuleValues :
           NewBuilder(text, DictRoot([rewrite_datetime |-> value]))
    \/ \E text \in RestampedLines, value \in RestampRuleValues :
           NewBuilder(text, DictRoot([rewrite_datetime |-> value]))
    \/ Rewritten

SpecStamp == InitDoc /\ [][NextStamp]_vars

(***************************************************************************)
(* Properties of the document builder.                                     *)
(***************************************************************************)
\* the lines whose Line.rewritten was evaluated by the last read, with the
\* text each returned
ReadLineNumbers ==
    IF builder.built /\ builder.read THEN 1..Len(builder.parts) ELSE {}

\* C1: for every line (no datetime rule is configured), Line.rewritten
\* returns a text with exactly as many characters as the line content.
C1_SameLength ==
    \A i \in ReadLineNumbers :
        Len(builder.parts[i].rewritten) = Len(builder.lines[i].content)

\* the class of a character: lowercase, uppercase, digit, whitespace,
\* punctuation
CharClass(c) ==
    IF c \in LowerChars THEN "lower"
    ELSE IF c \in UpperChars THEN "upper"
    ELSE IF c \in DigitChars THEN "digit"
    ELSE IF c \in WhitespaceChars THEN "whitespace"
    ELSE IF c \in PunctChars THEN "punctuation"
    ELSE "other"

\* C2: the rewritten line has a character of a class exactly at the
\* positions where the line content has a character of that class.
C2_SameClasses ==
    \A i \in ReadLineNumbers :
        LET new == builder.parts[i].rewritten
            old == builder.lines[i].content
        IN  /\ Len(new) = Len(old)
            /\ \A p \in 1..Len(old) : CharClass(new[p]) = CharClass(old[p])

\* the entity tokens rewritten by the last read, as <<line, position>>
RewrittenTokens ==
    UNION { { <<i, n>> : n \in {m \in 1..Len(builder.parts[i].tokens) :
                  builder.parts[i].tokens[m].class_name \in DOMAIN token_to_rule} } :
            i \in ReadLineNumbers }

TokenAt(p) == builder.parts[p[1]].tokens[p[2]]

HoldsBinaryLiteral(class_name, text) ==
    \/ /\ class_name = "NumberToken"
       /\ LET number == NumberParser(text).number
          IN  /\ Len(number) >= 2 /\ number[1] = "0"
              /\ AllIn(DropFirst(number, 1), {"0", "1"})
    \/ /\ class_name = "WordToken"
       /\ LET items == split_by_matches(WordParser(text).word, PunctChars)
          IN  \E i \in 1..Len(items) : IsBinLiteral(items[i])

UnchangedIndex ==
    IF builder.built /\ builder.read /\ "unchanged_lines" \in DOMAIN builder.rules
    THEN LET v == builder.rules["unchanged_lines"]
         IN  IF v.type = "int" THEN v.int ELSE DecVal(v.str)
    ELSE 0

\* C4: with unchanged_lines a single positive index k on a document of at
\* least k lines, the k-th line of the output is the k-th input line, content
\* and terminator, and no other line is marked unchanged.
C4_IndexedLineUnchanged ==
    LET k == UnchangedIndex
    IN  (k >= 1 /\ k <= Len(builder.lines)) =>
            /\ builder.parts[k].rewritten \o builder.parts[k].newline
                 = splitlines(builder.text)[k]
            /\ \A i \in 1..Len(builder.lines) :
                 builder.lines[i].unchanged <=> i = k

\* a read that kept the k-th line and rewrote another line of the same
\* content to a different text
C4_Witness ==
    LET k == UnchangedIndex
    IN  /\ k >= 1 /\ k <= Len(builder.lines)
        /\ \E i \in 1..Len(builder.lines) :
             /\ i # k
             /\ builder.lines[i].content = builder.lines[k].content
             /\ builder.parts[i].rewritten # builder.lines[i].content
             /\ builder.parts[k].rewritten = builder.lines[k].content

(***************************************************************************)
(* Properties of the rule engine.                                          *)
(***************************************************************************)
\* RewordBuilder.rewritten has been read, and either returned or raised
RewrittenRead == builder.built /\ (builder.read \/ builder.raised # "")

\* a bound of a pair as the specification words it: an index, a text or
\* null as the stop
IsPairShape(value) ==
    /\ value.type = "list" /\ Len(value.items) = 2
    /\ value.items[1].type \in {"int", "str"}
    /\ value.items[2].type \in {"int", "str", "none"}

\* an unchanged_lines value of a form the specification names: an integer,
\* a string of items, a [start, stop] pair or a list of such pairs
UnchangedShape(value) ==
    \/ value.type \in {"int", "str"}
    \/ IsPairShape(value)
    \/ /\ value.type = "list" /\ value.items # <<>>
       /\ \A i \in 1..Len(value.items) : IsPairShape(value.items[i])

\* a text of the flags true, false, yes and no, in any case
IsFlagText(text) == lower(strip(text)) \in FlagTexts

\* a rewrite_datetime value of a form the specification names: a string
\* 'flag,start[,width]' or a list of two or three elements of that shape
DateTimeShape(value) ==
    \/ /\ value.type = "str"
       /\ LET parts == SplitOn(value.str, ",")
          IN  /\ Len(parts) \in {2, 3}
              /\ IsFlagText(parts[1])
              /\ IsSignedDigits(strip(parts[2]), {"+", "-"})
              /\ Len(parts) = 3 =>
                    \/ IsSignedDigits(strip(parts[3]), {})
                    \/ lower(strip(parts[3])) \in OpenWidthTexts
    \/ /\ value.type = "list" /\ Len(value.items) \in {2, 3}
       /\ value.items[1].type \in {"str", "bool"}
       /\ IsFlagText(PyStr(value.items[1]))
       /\ value.items[2].type \in {"int", "str"}
       /\ IsSignedDigits(strip(PyStr(value.items[2])), {"+", "-"})
       /\ Len(value.items) = 3 =>
             \/ value.items[3].type = "none"
             \/ IsSignedDigits(strip(PyStr(value.items[3])), {})
             \/ lower(strip(PyStr(value.items[3]))) \in OpenWidthTexts

\* a line of the builder whose tokens are built when the text is read
ReadsALine ==
    \E n \in 1..Len(builder.lines) :
        /\ is_nonempty(builder.lines[n].content)
        /\ ~builder.lines[n].unchanged

\* C12: a rewrite_datetime value that is neither a 'flag,start[,width]'
\* string nor a list of that shape makes the rule engine raise
\* DateTimeRuleError, and an unchanged_lines value that is neither an
\* integer, a string of items, a pair nor a list of pairs makes it raise
\* UnchangedLinesError, once the rules are put to use on a document that has
\* a line to rewrite: the value is neither ignored nor the cause of another
\* exception.
C12_MalformedRaisesTyped ==
    (RewrittenRead /\ ReadsALine) =>
        /\ ("unchanged_lines" \in DOMAIN builder.rules
              /\ ~UnchangedShape(builder.rules["unchanged_lines"]))
             => builder.raised = "UnchangedLinesError"
        /\ ("rewrite_datetime" \in DOMAIN builder.rules
              /\ "unchanged_lines" \notin DOMAIN builder.rules
              /\ ~DateTimeShape(builder.rules["rewrite_datetime"]))
             => builder.raised = "DateTimeRuleError"

\* C13: a malformed rewrite_datetime or unchanged_lines value, or a root
\* that is not a mapping, raises when the rule set is loaded for the
\* builder, so no builder exists whose rules hold a value that the rule
\* constructors reject.
C13_RaisedAtLoad ==
    builder.built =>
        /\ get_unchanged_lines_rule(builder.rules).error = ""
        /\ get_datetime_token_rule(builder.rules).error = ""

\* the text has been read under the unchanged_lines value it was built with
ReadUnder == builder.built /\ builder.read /\ "unchanged_lines" \in DOMAIN builder.rules

\* the one-based numbers of the lines marked unchanged
MarkedLines == {n \in 1..Len(builder.lines) : builder.lines[n].unchanged}

\* the unchanged_lines value is one pair of positive indices
IsIndexPair(value) ==
    /\ value.type = "list" /\ Len(value.items) = 2
    /\ value.items[1].type = "int" /\ value.items[1].int >= 1
    /\ value.items[2].type = "int" /\ value.items[2].int >= 1

\* C14: an unchanged_lines pair [i, k] of positive one-based indices with
\* i <= k marks exactly the lines i through k, and a pair with k < i marks
\* no line.
C14_IndexPairMarksRange ==
    (ReadUnder /\ IsIndexPair(builder.rules["unchanged_lines"])) =>
        LET pair == builder.rules["unchanged_lines"].items
        IN  MarkedLines = {n \in 1..Len(builder.lines) :
                             pair[1].int <= n /\ n <= pair[2].int}

\* the texts null and none, in any case
IsNullText(value) ==
    /\ value.type = "str"
    /\ lower(strip(value.str)) \in {<<"n", "u", "l", "l">>, <<"n", "o", "n", "e">>}

\* the unchanged_lines value is one pair of a positive index and a stop
\* that is null or none
IsOpenPair(value) ==
    /\ value.type = "list" /\ Len(value.items) = 2
    /\ value.items[1].type = "int" /\ value.items[1].int >= 1
    /\ value.items[2].type = "none" \/ IsNullText(value.items[2])

\* C15: an unchanged_lines pair whose stop is null or none marks every line
\* from the start line through the last line of the document, whatever the
\* lines contain.
C15_OpenPairRunsToEnd ==
    (ReadUnder /\ IsOpenPair(builder.rules["unchanged_lines"])) =>
        MarkedLines = {n \in 1..Len(builder.lines) :
                         builder.rules["unchanged_lines"].items[1].int <= n}

\* a word that _to_index_or_pattern turns into a pattern: not an index, not
\* null, none or eof, not a width
IsPatternWord(value) ==
    /\ value.type = "str"
    /\ to_index_or_pattern(value) = StrBound(text_to_pattern(strip(value.str)))

\* the unchanged_lines value is one pair of two such words
IsPatternPair(value) ==
    /\ value.type = "list" /\ Len(value.items) = 2
    /\ IsPatternWord(value.items[1])
    /\ IsPatternWord(value.items[2])

\* the one-based numbers of the lines, from line first on, that the pattern
\* of the word matches
Matching(word, first) ==
    {n \in first..Len(builder.lines) :
        re_search(text_to_pattern(strip(word.str)), RawOf(builder.lines[n]))}

\* C16: a pair [X, Y] of patterns marks exactly the lines from the first
\* line matching X through the first later line matching Y, or through the
\* last line when no later line matches Y, and marks nothing when no line
\* matches X.  A line matches a word when the pattern that text_to_pattern
\* makes of the word is found in it.
C16_PatternPairMarksRange ==
    (ReadUnder /\ IsPatternPair(builder.rules["unchanged_lines"])) =>
        LET pair == builder.rules["unchanged_lines"].items
            starts == Matching(pair[1], 1)
        IN  IF starts = {} THEN MarkedLines = {}
            ELSE LET first == SetMin(starts)
                     stops == Matching(pair[2], first + 1)
                     last == IF stops = {} THEN Len(builder.lines)
                             ELSE SetMin(stops)
                 IN  MarkedLines = first..last

\* a pair of two different words was read on a document where the first
\* matches a line, the second a later line, and a line follows that one
C16_Witness ==
    /\ ReadUnder /\ IsPatternPair(builder.rules["unchanged_lines"])
    /\ LET pair == builder.rules["unchanged_lines"].items
           starts == Matching(pair[1], 1)
       IN  /\ starts # {}
           /\ SetMin(starts) > 1
           /\ Matching(pair[2], SetMin(starts) + 1) # {}
           /\ SetMin(Matching(pair[2], SetMin(starts) + 1)) < Len(builder.lines)
           /\ MarkedLines # {}

(***************************************************************************)
(* Properties of the entity rules.                                         *)
(***************************************************************************)
\* the rule of the entity type of a token, as given to the builder.  The
\* reading only ever adds the rule of an entity type, as True, so a rule
\* that was given as False is False when the token is rewritten, and a rule
\* that was absent or True is absent or True
GivenRule(token) ==
    LET name == token_to_rule[token.class_name]
    IN  IF name \in DOMAIN builder.rule_text
        THEN [present |-> TRUE, value |-> builder.rule_text[name]]
        ELSE [present |-> FALSE, value |-> TRUE]

\* C18: an entity token is regenerated when the rule of its entity type is
\* absent or is the boolean True, and its rewritten text is its raw text
\* when that rule is the boolean False.
C18_RegeneratedUnlessFalse ==
    \A p \in RewrittenTokens :
        LET token == TokenAt(p)
            rule == GivenRule(token)
        IN  /\ (~rule.present \/ rule.value = TRUE)
                => token.rewritten
                     \in generate_new(Mapping, token.class_name, token.raw)
            /\ (rule.present /\ rule.value = FALSE)
                => token.rewritten = token.raw

\* a read that regenerated a token without a rule to another text and kept
\* a token whose rule is False, which would have become another text
C18_Witness ==
    /\ \E p \in RewrittenTokens :
         /\ ~GivenRule(TokenAt(p)).present
         /\ TokenAt(p).rewritten # TokenAt(p).raw
    /\ \E p \in RewrittenTokens :
         /\ GivenRule(TokenAt(p)).present
         /\ GivenRule(TokenAt(p)).value = FALSE
         /\ TokenAt(p).rewritten = TokenAt(p).raw
         /\ TokenAt(p).raw
              \notin generate_new(Mapping, TokenAt(p).class_name, TokenAt(p).raw)

\* the entity types that occur as tokens of a line content
EntityTypesOf(content) ==
    LET chunks == split_by_matches(content, WhitespaceChars)
    IN  {build_token(chunks[i]) : i \in 1..Len(chunks)}
        \cap DOMAIN token_to_rule

\* the rules of the entity types that occur on a line that is not marked
\* unchanged
ExercisedRules ==
    {token_to_rule[c] :
       c \in UNION {EntityTypesOf(builder.lines[i].content) :
                      i \in {j \in 1..Len(builder.lines) :
                               ~builder.lines[j].unchanged}}}

\* C19: after rewritten has been read, the rules are the rules given plus
\* rewrite_<type>: True for exactly the entity types that had no rule and
\* occur as a token on a line not excluded by unchanged_lines; no rule given
\* is modified or removed.
C19_RulesAreGivenPlusExercised ==
    (builder.built /\ builder.read) =>
        /\ DOMAIN builder.rules
             = DOMAIN builder.rule_text \cup ExercisedRules
        /\ \A n \in DOMAIN builder.rule_text :
             builder.rules[n] = builder.rule_text[n]
        /\ \A n \in ExercisedRules \ DOMAIN builder.rule_text :
             builder.rules[n] = TRUE

\* a read of a document with an unchanged line that added the rule of an
\* entity type and left a rule given as False although its type occurs on a
\* rewritten line
C19_Witness ==
    /\ builder.built /\ builder.read
    /\ ExercisedRules \ DOMAIN builder.rule_text # {}
    /\ \E n \in ExercisedRules \cap DOMAIN builder.rule_text :
         builder.rule_text[n] = FALSE /\ builder.rules[n] = FALSE
    /\ \E i \in 1..Len(builder.lines) :
         /\ builder.lines[i].unchanged
         /\ EntityTypesOf(builder.lines[i].content) # {}

(***************************************************************************)
(* Properties of the line splitting.                                       *)
(***************************************************************************)
\* the characters at which a line ends
BoundaryChars == {"\n", "\r", "\f"}

\* the terminators of a line: "\n" and "\r\n", and the lone "\r"
Terminators == {<<"\n">>, <<"\r", "\n">>, <<"\r">>}

\* the raw text of the i-th line of the builder
RawLine(i) == builder.lines[i].content \o builder.lines[i].newline

\* the text RewordBuilder.rewritten returned
OutputText ==
    Join([i \in 1..Len(builder.parts) |->
            builder.parts[i].rewritten \o builder.parts[i].newline])

\* what ends each line of a text, in order: nothing for a last line that is
\* not terminated
LineEnds(text) ==
    LET raws == splitlines(text)
    IN  [i \in 1..Len(raws) |->
           DropFirst(raws[i], Len(rstrip(raws[i], BoundaryChars)))]

\* C20: the builder splits every text into lines whose raw texts, content
\* plus terminator, concatenated are the text; the terminator of a line is
\* "\n" or "\r\n" (or a lone "\r"), or nothing on a last line that is not
\* terminated; and the output carries what ended each line of the text,
\* unchanged and in order.
C20_LinesKeepTerminators ==
    builder.built =>
        LET lines == builder.lines
        IN  /\ Join([i \in 1..Len(lines) |-> RawLine(i)]) = builder.text
            /\ \A i \in 1..Len(lines) :
                 /\ lines[i].newline \in Terminators \cup {<<>>}
                 /\ lines[i].newline = <<>> => i = Len(lines)
            /\ builder.read =>
                 /\ Len(builder.parts) = Len(lines)
                 /\ \A i \in 1..Len(lines) :
                      builder.parts[i].newline = lines[i].newline
                 /\ LineEnds(OutputText) = LineEnds(builder.text)

(***************************************************************************)
(* Properties of the tokens of a line.                                     *)
(***************************************************************************)
\* the raw texts of the tokens of Line.tokenize, joined in order
TokenRaws(rules, content) ==
    LET tokens == tokenize(rules, content).tokens
    IN  Join([k \in 1..Len(tokens) |-> tokens[k].raw])

\* C21: for every line of a builder that was read, the raw texts of the
\* tokens that Line.tokenize returns, joined in order, are the content of
\* the line, on the ordinary path and on the datetime path
C21_TokensReproduceLine ==
    (builder.built /\ builder.read) =>
        \A i \in 1..Len(builder.lines) :
            TokenRaws(builder.rules, builder.lines[i].content)
                = builder.lines[i].content

\* the token classes that build_token tries for a segment, in order
Recognizers ==
    <<"FilePermissionToken", "URLToken", "MACToken", "IPv6Token",
      "IPv4Token", "NumberToken", "WordToken">>

\* the positions in Recognizers of the classes that recognize the text
Hits(text) == {k \in 1..Len(Recognizers) : Recognizes(Recognizers[k], text)}

C25_RefreshOnlyWhenAsked ==
    [][ (builder.built /\ builder.lines # <<>>) =>
          /\ Mapping' \in Tables
          /\ ~("rewrite_on_each_generate" \in DOMAIN builder.rules
               /\ builder.rules["rewrite_on_each_generate"] = TRUE)
                => Mapping' = Mapping
          /\ (builder'.read /\ builder'.raised = "") =>
               \A i \in 1..Len(builder'.parts) :
                 \A k \in 1..Len(builder'.parts[i].tokens) :
                   LET token == builder'.parts[i].tokens[k]
                   IN  token.rewritten \in
                         TokenRewritten(Mapping', token.class_name, token.raw,
                                        builder'.rules) ]_vars

\* a document was read under rewrite_on_each_generate and one of its tokens
\* was rewritten under the tables
C25_Witness ==
    /\ builder.built
    /\ builder.read
    /\ "rewrite_on_each_generate" \in DOMAIN builder.rules
    /\ builder.rules["rewrite_on_each_generate"] = TRUE
    /\ \E i \in 1..Len(builder.parts) :
         \E k \in 1..Len(builder.parts[i].tokens) :
           /\ builder.parts[i].tokens[k].class_name = "WordToken"
           /\ builder.parts[i].tokens[k].rewritten
                # builder.parts[i].tokens[k].raw

(***************************************************************************)
(* Properties of the slice items.                                          *)
(***************************************************************************)
\* the 1-based line that a bound of a slice item names in a document of
\* total lines: a negative bound counts back from the last line
BoundLine(bound, total) == IF bound > 0 THEN bound ELSE total + 1 + bound

\* C27: after a read under unchanged_lines given as the string "a:b", the
\* lines marked unchanged are the 1-based lines a through b, a negative
\* bound counted back from the last line, and no other line
C27_SliceMarksRange ==
    (builder.built /\ builder.read) =>
        \A a, b \in SliceBounds :
            builder.rule_text = [unchanged_lines |-> SliceValue(a, b)] =>
                LET total == Len(builder.lines)
                IN  \A i \in 1..total :
                        builder.lines[i].unchanged
                            <=> (BoundLine(a, total) <= i
                                 /\ i <= BoundLine(b, total))

(***************************************************************************)
(* Properties of the mapping tables.                                       *)
(***************************************************************************)
\* the charsets given to build_char_map for each table of the Mapping class
TableCharsets ==
    [letters |-> letters_set,
     base_number |-> digits_set,
     fraction_number |-> digits_set,
     alphanumeric |-> alphanumeric_set,
     octal |-> <<Zero, OctalDigits>>,
     file_permission |-> <<Zero \o OctalDigits>>,
     win_file_mode |-> << <<"-">>, <<"d">>, <<"D">>,
                          <<"a", "h", "i", "l", "r", "s">>,
                          <<"A", "H", "I", "L", "R", "S">> >>,
     mac_octet |-> hex_set,
     ipv6_octet |-> hex_set]

\* the tables of the Mapping class that build_char_map builds, each with
\* its charsets
CharTables(M) ==
    {[table |-> M[name], charsets |-> TableCharsets[name]] :
        name \in DOMAIN TableCharsets}
    \cup {[table |-> M.url[part], charsets |-> alphanumeric_set] :
            part \in DOMAIN M.url}

\* the alphabet of a table: the characters of its charsets
Alphabet(charsets) == UNION {Range(charsets[i]) : i \in 1..Len(charsets)}

\* C23: every table built by build_char_map, in the class body and after
\* any number of refreshes, is a bijection on its alphabet (it has as many
\* values as symbols) that maps each charset onto itself
C23_TablesAreClasswiseBijections ==
    \A t \in CharTables(Mapping) :
        /\ DOMAIN t.table = Alphabet(t.charsets)
        /\ Cardinality({t.table[c] : c \in DOMAIN t.table})
             = Cardinality(DOMAIN t.table)
        /\ \A i \in 1..Len(t.charsets) :
             {t.table[c] : c \in Range(t.charsets[i])} = Range(t.charsets[i])

\* the tables were rebuilt by a read of a document and are not the identity
C23_Witness ==
    /\ builder.built
    /\ builder.read
    /\ builder.lines # <<>>
    /\ "rewrite_on_each_generate" \in DOMAIN builder.rules
    /\ Mapping.letters["a"] = "e"
    /\ Mapping.url.host["1"] = "2"

\* a symbol is zero-like when it holds nothing but zeros
ZeroLike(c) == c = "0"

\* C24: in every table of the Mapping class, a symbol that maps to itself
\* is zero-like
C24_OnlyZeroLikeFixed ==
    \A t \in CharTables(Mapping) :
        \A c \in DOMAIN t.table : t.table[c] = c => ZeroLike(c)

\* the symbols alone in their charset map to themselves under every shuffle
\* of the model
SingletonsAreFixed ==
    \A t \in CharTables(Mapping) :
        \A i \in 1..Len(t.charsets) :
            Len(t.charsets[i]) = 1 => t.table[t.charsets[i][1]] = t.charsets[i][1]

(***************************************************************************)
(* Properties of the datetime token of a line.                             *)
(***************************************************************************)
\* the positions in the content at which a word begins, and at which one ends
WordFirsts(content) ==
    {i \in 1..Len(content) :
        /\ content[i] \notin WhitespaceChars
        /\ (i = 1 \/ content[i - 1] \in WhitespaceChars)}

WordLasts(content) ==
    {i \in 1..Len(content) :
        /\ content[i] \notin WhitespaceChars
        /\ (i = Len(content) \/ content[i + 1] \in WhitespaceChars)}

\* the k-th smallest member of a set of numbers
Kth(S, k) == CHOOSE i \in S : Cardinality({j \in S : j <= i}) = k

\* the configured span of a rule on a line of total words: its first and its
\* last word, a negative start counted from the last word
ConfiguredSpan(rule, total) ==
    LET first == IF rule.start_pos < 0 THEN total + rule.start_pos + 1
                 ELSE IF rule.start_pos = 0 THEN 1 ELSE rule.start_pos
        last == IF rule.width.eol \/ first + rule.width.n - 1 > total
                THEN total ELSE first + rule.width.n - 1
    IN  [first |-> first, last |-> last]

\* the datetime token of the tokens of a line, 0 for none
DateTimeAt(tokens) ==
    IF \E k \in 1..Len(tokens) : tokens[k].class_name = "DateTimeToken"
    THEN CHOOSE k \in 1..Len(tokens) : tokens[k].class_name = "DateTimeToken"
    ELSE 0

\* the DateTime token of the line lies on the configured words
OnConfiguredWords(rules, content) ==
    LET tokens == tokenize(rules, content).tokens
        at == DateTimeAt(tokens)
        total == Cardinality(WordFirsts(content))
        span == ConfiguredSpan(get_datetime_token_rule(rules), total)
    IN  at # 0 =>
            /\ 1 <= span.first /\ span.first <= span.last
            /\ Join([k \in 1..(at - 1) |-> tokens[k].raw])
                 = TakeFirst(content, Kth(WordFirsts(content), span.first) - 1)
            /\ Join([k \in 1..(Len(tokens) - at) |-> tokens[at + k].raw])
                 = DropFirst(content, Kth(WordLasts(content), span.last))

\* C26: on every line of a builder on which Line.tokenize produces a DateTime
\* token, the tokens before it make up the text before the first word of the
\* configured span and the tokens after it the text after its last word
C26_DateTimeOnConfiguredWords ==
    builder.built =>
        \A i \in 1..Len(builder.lines) :
            OnConfiguredWords(builder.rules, builder.lines[i].content)

\* the text of a line from the first to the last word of a span
SpanText(content, span) ==
    SubSeq(content, Kth(WordFirsts(content), span.first),
           Kth(WordLasts(content), span.last))

\* the tokens other than the k-th were built and rewritten as the tokens of
\* an ordinary line are
OrdinaryAround(tokens, k) ==
    \A j \in (1..Len(tokens)) \ {k} :
        /\ tokens[j].class_name = build_token(tokens[j].raw)
        /\ tokens[j].rewritten \in
               TokenRewritten(Mapping, tokens[j].class_name, tokens[j].raw,
                              builder.rules)

\* the span of the rule on a line that was tokenized and rewritten is the
\* text of one DateTime token, returned as it is, between ordinary tokens
SpanKept(content, tokens) ==
    LET total == Cardinality(WordFirsts(content))
        span == ConfiguredSpan(get_datetime_token_rule(builder.rules), total)
    IN  (/\ 1 <= span.first /\ span.first <= span.last
         /\ build_datetime_token(SpanText(content, span))) =>
            \E k \in 1..Len(tokens) :
                /\ Join([j \in 1..(k - 1) |-> tokens[j].raw])
                     = TakeFirst(content,
                                 Kth(WordFirsts(content), span.first) - 1)
                /\ tokens[k].class_name = "DateTimeToken"
                /\ tokens[k].raw = SpanText(content, span)
                /\ tokens[k].rewritten = tokens[k].raw
                /\ OrdinaryAround(tokens, k)

\* C30: under a rewrite_datetime rule with the flag no or false, on every
\* line that was tokenized by the read and whose configured span is the text
\* of a datetime, the span is returned byte for byte as one DateTime token,
\* and the tokens on its left and right are those of an ordinary line,
\* rewritten under the ordinary rules
C30_SpanKeptUnderNo ==
    (/\ builder.built /\ builder.read
     /\ get_datetime_token_rule(builder.rules).is_parsed
     /\ ~get_datetime_token_rule(builder.rules).is_rewrite) =>
        \A i \in 1..Len(builder.parts) :
            builder.parts[i].tokens # <<>> =>
                SpanKept(builder.lines[i].content, builder.parts[i].tokens)

(***************************************************************************)
(* Properties of repeated reads.                                           *)
(***************************************************************************)
\* the text a read of the builder b returned
ReturnedText(b) ==
    Join([i \in 1..Len(b.parts) |-> b.parts[i].rewritten \o b.parts[i].newline])

\* C29: every read of RewordBuilder.rewritten after the first returns, and
\* returns the text of the read before it, whether or not the tables were
\* rebuilt in between
C29_ReadsAgree ==
    [][ (builder.built /\ builder.read /\ builder.raised = "") =>
          /\ builder'.read
          /\ builder'.raised = ""
          /\ ReturnedText(builder') = ReturnedText(builder) ]_vars

\* a document with an unchanged line was read again: a line of it was
\* returned from its cache, with a text that the tables as they are now do
\* not give
C29_Witness ==
    /\ builder.built
    /\ builder.read
    /\ \E i \in 1..Len(builder.lines) : builder.lines[i].unchanged
    /\ \E i \in 1..Len(builder.lines) :
         /\ ~builder.lines[i].unchanged
         /\ builder.parts[i].tokens = <<>>
         /\ builder.parts[i].rewritten # <<>>
         /\ builder.parts[i].rewritten = builder.lines[i].rewritten
         /\ \A r \in LineRewritten(Mapping,
                       [builder.lines[i] EXCEPT !.rewritten = <<>>],
                       builder.rules) :
                r.text # builder.parts[i].rewritten

(***************************************************************************)
(* Properties of _generate_random_datetime.                                *)
(***************************************************************************)
\* the month and the day of c are as wide as those of the base
SameWidths(c, base) ==
    /\ Width(c.month) = Width(base.month)
    /\ Width(c.day) = Width(base.day)

\* the backward walk from the base taken back n days reaches the widths of
\* the base within its steps
WalkReaches(base, n) ==
    \E k \in 1..WalkSteps :
        SameWidths(FromOrdinal(Ordinal(base) - n - k), base)

\* C28: every call of _generate_random_datetime returns a datetime, strictly
\* earlier than the original, whose month and day have as many decimal
\* digits as those of the original, and from each of the 1 to 20 days the
\* original may be taken back the backward walk reaches such a candidate
\* within its 360 steps
C28_EarlierSameWidths ==
    rw.fn = "_generate_random_datetime" =>
        /\ ~rw.raised
        /\ Before(rw.new, rw.base)
        /\ SameWidths(rw.new, rw.base)
        /\ \A n \in 1..20 : WalkReaches(rw.base, n)

(***************************************************************************)
(* Properties of the datetime rule.                                        *)
(***************************************************************************)
\* the words at the 1-based positions first .. last of the parts
WordsAt(parts, first, last) ==
    IF last < first THEN <<>>
    ELSE [i \in 1..(last - first + 1) |-> parts[first + i - 1]]

\* the position of the word a start position names among total words: the
\* position itself, or for a negative start the position of the word that
\* far from the end
StartWord(start_pos, total) ==
    IF start_pos < 0 THEN total + start_pos + 1 ELSE start_pos

\* the last position of a span of width words from first, cut at the end of
\* the line; the end of the line for eol
SpanEnd(first, width, total) ==
    IF width.eol THEN total
    ELSE IF first + width.n - 1 > total THEN total ELSE first + width.n - 1

\* C17: for a line of n words and a start position that names a position
\* (1-based, or counted from the end when negative), extract_segments
\* returns exactly the words at the positions start .. start+width-1, cut
\* at the end of the line, or all the words from the start position to the
\* end of the line when the width is eol.
C17_SegmentsAreTheSpan ==
    (rw.fn = "extract_segments" /\ rw.rule.start_pos # 0
       /\ StartWord(rw.rule.start_pos, Len(rw.parts)) >= 1)
    => LET total == Len(rw.parts)
           first == StartWord(rw.rule.start_pos, total)
       IN  rw.segments = WordsAt(rw.parts, first,
                                 SpanEnd(first, rw.rule.width, total))

(***************************************************************************)
(* Properties of the datetime parsers.                                     *)
(***************************************************************************)
\* a parser that recognized its text and whose rewritten text has been read
DTRead == dt.parsed /\ dt.is_parsed /\ dt.read

\* C6: the rewritten text of a recognized datetime text, parsed under the
\* output format of the parser, is strictly earlier than the original.
C6_StrictlyEarlier ==
    DTRead =>
        LET new == strptime(dt.rewritten, dt.output_format)
        IN  new.ok /\ Before(new.value, dt.dt)

(***************************************************************************)
(* Properties of the address regenerators.                                 *)
(***************************************************************************)

\* C5: a parser built from a contiguous netmask (prefix length 1 to 32) is
\* regenerated to a parser with the same address value and octets, with or
\* without source parsers and whatever the earlier parsers hold.
C5_NetmaskUnchanged ==
    \A i \in 1..Len(parsers) :
        parsers[i].octs \in Netmasks
            => /\ Value(parsers[i].new_address) = Value(parsers[i].octs)
               /\ parsers[i].new_octets = parsers[i].octs

\* a netmask regenerated after a source that shares an octet with it and whose
\* own octet at that position was redrawn
C5_Witness ==
    \E i \in 2..Len(parsers) :
        /\ parsers[i].octs \in Netmasks
        /\ parsers[i].nsrc > 0
        /\ \E q \in 2..4 : /\ parsers[1].octs[q] = parsers[i].octs[q]
                           /\ parsers[1].new_octets[q] # parsers[1].octs[q]

C8_IdenticalSourceReused ==
    \A j \in 1..Len(parsers) :
        LET srcs == SubSeq(parsers, 1, parsers[j].nsrc)
            same == {i \in 1..Len(srcs) : srcs[i].octs = parsers[j].octs}
        IN  \A i \in same :
                i = SetMin(same)
                    => /\ parsers[j].new_octets = srcs[i].new_octets
                       /\ parsers[j].new_address = srcs[i].new_address

C10_PivotGroupsKept ==
    rw.fn = "new_ipv6_address" =>
        LET before == Exploded(rw.address)
            after == ExplodedOf(rw.result)
            nonzero == {i \in 1..8 : ~IsZeroGroup(before[i])}
            pivot == IF nonzero = {} THEN 8 ELSE SetMin(nonzero)
        IN  /\ Len(after) = 8
            /\ \A i \in 1..pivot : after[i] = before[i]

\* an address with leading zero groups, a pivot, and a changed later group
C10_Witness ==
    /\ rw.fn = "new_ipv6_address"
    /\ LET before == Exploded(rw.address)
           after == ExplodedOf(rw.result)
           nonzero == {i \in 1..8 : ~IsZeroGroup(before[i])}
       IN  /\ nonzero # {}
           /\ SetMin(nonzero) \in 2..7
           /\ \E i \in (SetMin(nonzero) + 1)..8 : after[i] # before[i]

\* the call of new_mac_address that has returned
MacCalled == rw.fn = "new_mac_address"

\* the number of hexadecimal digits among the first p characters
HexDigitsUpTo(text, p) == Len(Compact(strip(TakeFirst(text, p))))

\* the characters of result that must equal those of address when the
\* first digits hexadecimal digits and every separator are kept
KeepsLeading(address, result, digits) ==
    /\ Len(result) = Len(address)
    /\ \A p \in 1..Len(address) :
         (address[p] \in MacSepChars
              \/ HexDigitsUpTo(address, p) <= digits)
             => result[p] = address[p]

IsCutAsWritten(address) ==
    LET sep == FirstSep(address)
    IN  address = JoinWith(Chunks(Compact(address), OctetSize(sep)), sep)

====
